---------------------------- MODULE Spec2Model ----------------------------
(***************************************************************************)
(* Model of the bow-wow parametric boat hull generator:                    *)
(*   - the buoyancy solver (utils/physics: calculateCrossSectionArea,      *)
(*     calculateDisplacedVolume, calculatePLAVolume, calculateTotalMass,   *)
(*     calculateWaterlineHeight, wouldSink);                               *)
(*   - the shell mesher (components/HullMesh: createHullGeometry with its  *)
(*     addCrossSection / addQuad helpers and the stern and bow closures).  *)
(*                                                                         *)
(* The TypeScript code computes in IEEE doubles.  The model computes in    *)
(* fixed point: every length is an integer number of units and every       *)
(* product that is divided keeps the floor of the exact quotient.          *)
(*   - BoatParams holds lengths in tenths of a millimetre and masses in    *)
(*     grams (the control panel's slider steps are 0.1 mm or coarser).     *)
(*   - The solver works in units of 1/1280 mm (UnitsPerMm), so that the    *)
(*     0.1 mm tolerance is 128 units and the bisection midpoints of a      *)
(*     hull of up to 25 mm are exact, as they are in binary floating point.*)
(*   - The mesher works in units of 1/100 mm (MeshPerMm).                  *)
(***************************************************************************)
EXTENDS Integers, Sequences, FiniteSets, TLC

VARIABLES
    params,          \* the BoatParams record handed to every function
    \* ---- calculateWaterlineHeight / wouldSink
    wpc,             \* "call" | "loop" | "returned" | "checked"
    requiredVolume,  \* totalMass / waterDensityGPerMm3
    low, high,       \* the bisection bracket
    iter,            \* the for-loop counter
    mid, volume,     \* the last midpoint and its displaced volume
    waterline,       \* the value returned by calculateWaterlineHeight
    sinks,           \* the value returned by wouldSink
    \* ---- calculateDisplacedVolume applied to pairs of heights
    h1, v1, h2, v2,
    \* ---- createHullGeometry
    pc,              \* the place reached in createHullGeometry
    sec,             \* the loop counter of the section loops
    vertices,        \* the vertex list, one <<x, y, z>> per vertex
    indices,         \* the index list, one <<a, b, c>> per triangle
    bilge,           \* effectiveBilgeRadius of the last addCrossSection call
    \* ---- computeXCrossSection / computeYCrossSection / computeZCrossSection
    axis,            \* "x" | "y" | "z", the function called
    position,        \* its position argument
    result,          \* "null" | "geometry"
    outline,         \* the measures of the contours computeZCrossSection drew
    \* ---- computePlaneIntersection / connectSegmentsIntoLoops /
    \* ---- triangulateCrossSection
    cpc,             \* the place reached in the extractor
    plane,           \* <<axis, offset>> of the cutting plane
    segments,        \* the segment list, one <<start, end>> per segment
    used,            \* the set of used segment indices
    loops,           \* the loops pushed so far
    loop,            \* the loop being built
    currentEnd,      \* the trailing endpoint of the loop being built
    iterations,      \* the counter of the inner while loop
    cap,             \* what triangulateCrossSection returns
    \* ---- loadParams
    saved,           \* the record handed to loadParams
    loaded,          \* the record it returns
    \* ---- App.handleLoad
    file,            \* what the file input delivered
    settled,         \* how the promise of loadParamsFromFile settled
    \* ---- Viewer3D
    viewMode,        \* "perspective" | "orthographic"
    viewPreset,      \* the ViewPreset state
    keyDownPreset,   \* viewPreset as the registered handleKeyDown sees it
    event,           \* the last event handled
    before           \* viewPreset when that event arrived

solverVars == <<wpc, requiredVolume, low, high, iter, mid, volume, waterline, sinks>>
sweepVars  == <<h1, v1, h2, v2>>
hullVars   == <<pc, sec, vertices, indices, bilge>>
queryVars  == <<axis, position, result, outline>>
cutVars    == <<cpc, plane, segments, used, loops, loop, currentEnd, iterations, cap>>
loadVars   == <<saved, loaded>>
appVars    == <<file, settled>>
viewVars   == <<viewMode, viewPreset, keyDownPreset, event, before>>
vars == <<params, solverVars, sweepVars, hullVars, queryVars, cutVars, loadVars,
          appVars, viewVars>>

-----------------------------------------------------------------------------
(* Arithmetic helpers *)

Min2(a, b) == IF a <= b THEN a ELSE b
Max2(a, b) == IF a >= b THEN a ELSE b
Abs(a) == IF a >= 0 THEN a ELSE -a

\* floor(a * b / c) for a, b >= 0 and c > 0, without forming a * b
MulDiv(a, b, c) == (a \div c) * b + ((a % c) * b) \div c

\* the root of n between lo and hi, lo * lo <= n < hi * hi, by bisection
RECURSIVE ISqrtFrom(_, _, _)
ISqrtFrom(n, lo, hi) ==
    IF hi - lo <= 1 THEN lo
    ELSE LET m == (lo + hi) \div 2
         IN  IF m * m <= n THEN ISqrtFrom(n, m, hi) ELSE ISqrtFrom(n, lo, m)
\* floor(sqrt(n)), 0 <= n < 2^31
ISqrt(n) == ISqrtFrom(n, 0, 46341)

-----------------------------------------------------------------------------
(* Units *)

\* solver units per millimetre: 5 * 2^8
UnitsPerMm == 5 * 256
\* solver units per tenth of a millimetre (the unit of BoatParams lengths)
UnitsPerTenth == UnitsPerMm \div 10
\* a BoatParams length in solver units
U(tenths) == tenths * UnitsPerTenth

\* Math.PI / 2 as the fraction PiHalfNum / PiHalfDen (355/226 = 1.5707965)
PiHalfNum == 355
PiHalfDen == 226

-----------------------------------------------------------------------------
(* utils/physics *)

\* Math.acos(c / Trig) * Trig for 0 <= c <= Trig (Abramowitz-Stegun 4.4.45)
Trig == 10 * 1000
ArcCos(c) ==
    LET root == ISqrt((Trig - c) * Trig)
        c2   == (c * c) \div Trig
        c3   == (c2 * c) \div Trig
        poly == 15707 - (2121 * c) \div Trig + (743 * c2) \div Trig
                      - (187 * c3) \div Trig
    IN  (root * poly) \div Trig

\* calculateCornerArea(r, height): the area of a bilge corner from 0 to height
calculateCornerArea(r, height) ==
    IF height >= r
    THEN MulDiv(r * r, PiHalfNum, 2 * PiHalfDen)
    ELSE LET c     == ((r - height) * Trig) \div r
             s     == ISqrt(Trig * Trig - c * c)
             theta == ArcCos(c)
         IN  MulDiv(r * r, theta - (s * c) \div Trig, 2 * Trig)

\* a sign slip in the bilge regime: the corners are subtracted
AreaCornersSubtracted(beam, bilgeRadius, atHeight) ==
    IF atHeight <= 0 THEN 0
    ELSE LET halfBeam == beam \div 2
             r == Min2(Min2(bilgeRadius, halfBeam), atHeight)
         IN  IF r <= 0 THEN beam * atHeight
             ELSE IF atHeight <= r
                  THEN (beam - 2 * r) * atHeight - 2 * calculateCornerArea(r, atHeight)
                  ELSE beam * atHeight
                       + (2 * calculateCornerArea(r, r) - 2 * r * r)

\* calculateCrossSectionArea(beam, bilgeRadius, atHeight), in units^2
calculateCrossSectionArea(beam, bilgeRadius, atHeight) ==
    IF atHeight <= 0 THEN 0
    ELSE LET halfBeam == beam \div 2
             r == Min2(Min2(bilgeRadius, halfBeam), atHeight)
         IN  IF r <= 0 THEN beam * atHeight
             ELSE IF atHeight <= r
                  THEN LET centerWidth == beam - 2 * r
                           centerArea  == centerWidth * atHeight
                           cornerArea  == calculateCornerArea(r, atHeight)
                       IN  centerArea + 2 * cornerArea
                  ELSE LET cornerCut     == r * r
                           quarterCircle == MulDiv(r * r, PiHalfNum, 2 * PiHalfDen)
                           cornerCorrection == 2 * quarterCircle - 2 * cornerCut
                       IN  beam * atHeight + cornerCorrection

\* an area (units^2) times a length of lenNum / lenDen mm, in units^2 * mm
\* (1/1280 mm^3, the model's volume unit)
AreaTimesLength(area, lenNum, lenDen) ==
    MulDiv(area \div UnitsPerMm, lenNum, lenDen)

bowSegments == 20
\* avgScale of bow segment i as the fraction AvgScaleNum(i) / ScaleDen:
\* ((1 - i/20 * 0.97) + (1 - (i+1)/20 * 0.97)) / 2
ScaleDen == 2 * bowSegments * 100
\* the average of the mesher's scales 1 - t at the two ends of the segment
MesherAvgScaleNum(i) == ScaleDen - 100 * (2 * i + 1)
\* the scale at the start of the segment taken for the average
StartScaleNum(i) == ScaleDen - 97 * (2 * i)
AvgScaleNum(i) == ScaleDen - 97 * (2 * i + 1)

\* the bow loop of calculateDisplacedVolume from segment i on
RECURSIVE DisplacedBowVolume(_, _, _, _)
DisplacedBowVolume(p, totalLength, waterlineHeight, i) ==
    IF i >= bowSegments THEN 0
    ELSE LET segmentBeam  == MulDiv(U(p.beam), AvgScaleNum(i), ScaleDen)
             segmentBilge == MulDiv(U(p.bilgeRadius), AvgScaleNum(i), ScaleDen)
             segmentArea  == calculateCrossSectionArea(segmentBeam, segmentBilge,
                                                       waterlineHeight)
         IN  AreaTimesLength(segmentArea, totalLength * p.bowLengthPercent,
                             100 * bowSegments)
             + DisplacedBowVolume(p, totalLength, waterlineHeight, i + 1)

\* calculateDisplacedVolume(params, totalLength, waterlineHeight)
calculateDisplacedVolume(p, totalLength, waterlineHeight) ==
    IF waterlineHeight <= 0 THEN 0
    ELSE LET sternArea   == calculateCrossSectionArea(U(p.beam), U(p.bilgeRadius),
                                                      waterlineHeight)
             sternVolume == AreaTimesLength(sternArea,
                               totalLength * (100 - p.bowLengthPercent), 100)
         IN  sternVolume + DisplacedBowVolume(p, totalLength, waterlineHeight, 0)

\* the bow loop of calculatePLAVolume from segment i on
RECURSIVE ShellBowVolume(_, _, _)
ShellBowVolume(p, totalLength, i) ==
    IF i >= bowSegments THEN 0
    ELSE LET innerBeam  == U(p.beam) - 2 * U(p.wallThickness)
             innerBilge == Max2(0, U(p.bilgeRadius) - U(p.wallThickness))
             segOuterArea == calculateCrossSectionArea(
                                 MulDiv(U(p.beam), AvgScaleNum(i), ScaleDen),
                                 MulDiv(U(p.bilgeRadius), AvgScaleNum(i), ScaleDen),
                                 U(p.hullHeight))
             scaledInnerBeam  == IF innerBeam > 0
                                 THEN MulDiv(innerBeam, AvgScaleNum(i), ScaleDen)
                                 ELSE innerBeam
             scaledInnerBilge == MulDiv(innerBilge, AvgScaleNum(i), ScaleDen)
             scaledWall == MulDiv(U(p.wallThickness),
                                  Max2(ScaleDen \div 2, AvgScaleNum(i)), ScaleDen)
             segInnerArea == IF scaledInnerBeam > 0
                             THEN calculateCrossSectionArea(scaledInnerBeam,
                                      scaledInnerBilge, U(p.hullHeight) - scaledWall)
                             ELSE 0
             segShellArea == segOuterArea - segInnerArea
         IN  AreaTimesLength(segShellArea, totalLength * p.bowLengthPercent,
                             100 * bowSegments)
             + ShellBowVolume(p, totalLength, i + 1)

\* calculatePLAVolume(params, totalLength), in 1/1280 mm^3
calculatePLAVolume(p, totalLength) ==
    LET outerArea   == calculateCrossSectionArea(U(p.beam), U(p.bilgeRadius),
                                                 U(p.hullHeight))
        innerBeam   == U(p.beam) - 2 * U(p.wallThickness)
        innerBilge  == Max2(0, U(p.bilgeRadius) - U(p.wallThickness))
        innerHeight == U(p.hullHeight) - U(p.wallThickness)
        innerArea   == IF innerBeam > 0
                       THEN calculateCrossSectionArea(innerBeam, innerBilge, innerHeight)
                       ELSE 0
        sternShellArea == outerArea - innerArea
        sternVolume == AreaTimesLength(sternShellArea,
                           totalLength * (100 - p.bowLengthPercent), 100)
                       + AreaTimesLength(outerArea, U(p.wallThickness), UnitsPerMm)
    IN  sternVolume + ShellBowVolume(p, totalLength, 0)

\* Masses are in units of 1/1280000 g, the mass of one volume unit of water
\* (waterDensityGPerMm3 = 0.001), so that requiredVolume = totalMass / 0.001
\* is the same number in volume units.
MassPerGram == 1000 * UnitsPerMm

\* PLA_DENSITY = 1.25 g/cm^3 as the fraction PlaDensityNum / PlaDensityDen
PlaDensityNum == 5
PlaDensityDen == 4

\* a unit slip: mm^3 taken to cm^3 by / 100
PLAMassWrongUnit(p, totalLength) ==
    MulDiv(calculatePLAVolume(p, totalLength) * 10, PlaDensityNum, PlaDensityDen)

\* calculatePLAMass(params, totalLength): volumeMm3 / 1000 * PLA_DENSITY
calculatePLAMass(p, totalLength) ==
    MulDiv(calculatePLAVolume(p, totalLength), PlaDensityNum, PlaDensityDen)

\* calculateTotalMass(params, totalLength)
\* the payload taken off the hull mass
TotalMassLessPayload(p, totalLength) ==
    calculatePLAMass(p, totalLength)
    - (p.motorWeight + p.batteryWeight + p.ballastWeight) * MassPerGram

calculateTotalMass(p, totalLength) ==
    calculatePLAMass(p, totalLength)
    + (p.motorWeight + p.batteryWeight + p.ballastWeight) * MassPerGram

-----------------------------------------------------------------------------
(* calculateWaterlineHeight *)

\* const tolerance = 0.1 (mm), in solver units
Tolerance == UnitsPerMm \div 10
\* for (let iter = 0; iter < 50; iter++)
MaxIterations == 50

\* const requiredVolume = totalMass / waterDensityGPerMm3
RequiredVolumeOf(p, totalLength) == calculateTotalMass(p, totalLength)

\* a wrong field: the bracket opened at the beam
InitialHighBeam(p) == U(p.beam)

\* let high = params.hullHeight
InitialHigh(p) == U(p.hullHeight)

\* const mid = (low + high) / 2
Midpoint(lo, hi) == (lo + hi) \div 2

\* Math.abs(volume - requiredVolume) < requiredVolume * 0.001
VolumeConverged(vol, required) ==
    required >= 1 /\ Abs(vol - required) <= (required - 1) \div 1000

\* the width test never succeeds
BracketNeverConverged(lo, hi) == hi - lo < 0

\* high - low < tolerance
BracketConverged(lo, hi) == hi - lo < Tolerance

\* the two branches exchanged
NextBracketSwapped(lo, hi, m, vol, required) ==
    IF vol < required THEN <<lo, m>> ELSE <<m, hi>>

\* if (volume < requiredVolume) low = mid; else high = mid;
NextBracket(lo, hi, m, vol, required) ==
    IF vol < required THEN <<m, hi>> ELSE <<lo, m>>

\* the waterline strictly above the hull
WouldSinkAbove(p, height) == height > U(p.hullHeight)

\* wouldSink: waterline >= params.hullHeight * 0.95
WouldSinkAt(p, height) == height * 100 >= U(p.hullHeight) * 95

\* App: calculatedLength = params.boatLength (mm)
CalculatedLength(p) == p.boatLength

\* the for-loop of calculateWaterlineHeight from iteration i on, as a function
\* of the bracket: the value returned
RECURSIVE Bisect(_, _, _, _, _, _)
Bisect(p, totalLength, required, lo, hi, i) ==
    IF i >= MaxIterations THEN Midpoint(lo, hi)
    ELSE LET m   == Midpoint(lo, hi)
             vol == calculateDisplacedVolume(p, totalLength, m)
             br  == NextBracket(lo, hi, m, vol, required)
         IN  IF VolumeConverged(vol, required) THEN m
             ELSE IF BracketConverged(br[1], br[2]) THEN m
             ELSE Bisect(p, totalLength, required, br[1], br[2], i + 1)

\* calculateWaterlineHeight(params, totalLength) as a function
calculateWaterlineHeight(p, totalLength) ==
    Bisect(p, totalLength, RequiredVolumeOf(p, totalLength), 0, InitialHigh(p), 0)

\* entry of calculateWaterlineHeight up to the loop
EnterWaterline ==
    /\ wpc = "call"
    /\ requiredVolume' = RequiredVolumeOf(params, CalculatedLength(params))
    /\ low' = 0
    /\ high' = InitialHigh(params)
    /\ iter' = 0
    /\ wpc' = "loop"
    /\ UNCHANGED <<appVars, viewVars, params, mid, volume, waterline, sinks, sweepVars, hullVars,
                   queryVars, cutVars, loadVars>>

\* one test of the for-loop condition and, when it holds, one loop body;
\* when it fails, the return after the loop
BisectStep ==
    /\ wpc = "loop"
    /\ IF iter < MaxIterations
       THEN LET m   == Midpoint(low, high)
                vol == calculateDisplacedVolume(params, CalculatedLength(params), m)
                br  == NextBracket(low, high, m, vol, requiredVolume)
            IN  /\ mid' = m
                /\ volume' = vol
                /\ IF VolumeConverged(vol, requiredVolume)
                   THEN /\ waterline' = m
                        /\ wpc' = "returned"
                        /\ UNCHANGED <<low, high, iter>>
                   ELSE /\ low' = br[1]
                        /\ high' = br[2]
                        /\ IF BracketConverged(br[1], br[2])
                           THEN /\ waterline' = m
                                /\ wpc' = "returned"
                                /\ UNCHANGED iter
                           ELSE /\ iter' = iter + 1
                                /\ UNCHANGED <<waterline, wpc>>
       ELSE /\ waterline' = Midpoint(low, high)
            /\ wpc' = "returned"
            /\ UNCHANGED <<low, high, iter, mid, volume>>
    /\ UNCHANGED <<appVars, viewVars, params, requiredVolume, sinks, sweepVars, hullVars,
                   queryVars, cutVars, loadVars>>

\* wouldSink applied to the returned waterline
WouldSink ==
    /\ wpc = "returned"
    /\ sinks' = WouldSinkAt(params, waterline)
    /\ wpc' = "checked"
    /\ UNCHANGED <<appVars, viewVars, params, requiredVolume, low, high, iter, mid, volume, waterline,
                   sweepVars, hullVars,
                   queryVars, cutVars, loadVars>>

-----------------------------------------------------------------------------
(* Parameter sets *)

\* DEFAULT_PARAMS (lengths in tenths of a millimetre, boatLength in mm)
DEFAULT_PARAMS ==
    [ boatLength |-> 150, beam |-> 400, hullHeight |-> 250, wallThickness |-> 12,
      bilgeRadius |-> 50, bowType |-> "plumb", bowLengthPercent |-> 40,
      bowRakeAngle |-> 30, bowEntryAngle |-> 20,
      motorWeight |-> 10, batteryWeight |-> 23, ballastWeight |-> 0 ]

\* ballast is loaded in steps of BallastStep grams, up to MaxBallastSteps steps
BallastStep == 50
MaxBallastSteps == 4

SolverParams ==
    { [DEFAULT_PARAMS EXCEPT !.beam = b, !.hullHeight = h, !.bilgeRadius = r,
                             !.bowLengthPercent = pct,
                             !.ballastWeight = k * BallastStep] :
        b \in {200, 400}, h \in {150, 250}, r \in {0, 50},
        pct \in {20, 40}, k \in 0..MaxBallastSteps }
    \cup
    \* the ends of the Hull Height slider, 15 and 50 mm, on the narrow hull
    { [DEFAULT_PARAMS EXCEPT !.beam = 200, !.hullHeight = h, !.bilgeRadius = r,
                             !.ballastWeight = k * BallastStep] :
        h \in {150, 500}, r \in {0, 50}, k \in 0..MaxBallastSteps }

NoSolver ==
    /\ wpc = "idle" /\ requiredVolume = 0 /\ low = 0 /\ high = 0 /\ iter = 0
    /\ mid = 0 /\ volume = 0 /\ waterline = 0 /\ sinks = FALSE
NoSweep == h1 = 0 /\ v1 = 0 /\ h2 = 0 /\ v2 = 0
NoHull == pc = "idle" /\ sec = 0 /\ vertices = <<>> /\ indices = <<>> /\ bilge = 0
NoOutline == [halfBeam |-> 0, innerHalfBeam |-> 0, r |-> 0, innerR |-> 0]
NoQuery == axis = "y" /\ position = 0 /\ result = "null" /\ outline = NoOutline
NoCut ==
    /\ cpc = "idle" /\ plane = [normal |-> <<0, 0, 1>>, constant |-> 0] /\ segments = <<>> /\ used = {}
    /\ loops = <<>> /\ loop = <<>> /\ currentEnd = <<0, 0, 0>> /\ iterations = 0
    /\ cap = [outer |-> <<>>, holes |-> <<>>, all3DPoints |-> <<>>]
NoLoad == saved = <<>> /\ loaded = <<>>
NoApp == file = [kind |-> "unset"] /\ settled = "none"
NoView ==
    /\ viewMode = "perspective" /\ viewPreset = "home" /\ keyDownPreset = "home"
    /\ event = [kind |-> "none", name |-> "", inInput |-> FALSE] /\ before = "home"
NoUI == NoApp /\ NoView
NoExtras == NoQuery /\ NoCut /\ NoLoad /\ NoUI

InitWaterline ==
    /\ params \in SolverParams
    /\ wpc = "call" /\ requiredVolume = 0 /\ low = 0 /\ high = 0 /\ iter = 0
    /\ mid = 0 /\ volume = 0 /\ waterline = 0 /\ sinks = FALSE
    /\ NoSweep
    /\ NoHull
    /\ NoExtras

NextWaterline == EnterWaterline \/ BisectStep \/ WouldSink

SpecWaterline == InitWaterline /\ [][NextWaterline]_vars

-----------------------------------------------------------------------------
(* calculateDisplacedVolume applied to pairs of heights *)

\* the heights probed: SweepDivisions equal steps over [0, hullHeight], and
\* the heights next to the regime boundary min(bilgeRadius, beam / 2)
SweepDivisions == 16

SweepHeights(p) ==
    LET top == U(p.hullHeight)
        r   == Min2(U(p.bilgeRadius), U(p.beam) \div 2)
    IN  { (top * k) \div SweepDivisions : k \in 0..SweepDivisions }
        \cup { h \in {r - 1, r, r + 1} : 0 <= h /\ h <= top }

SweepParams ==
    { [DEFAULT_PARAMS EXCEPT !.beam = b, !.bilgeRadius = r,
                             !.bowLengthPercent = pct] :
        b \in {200, 400}, r \in {0, 50, 150}, pct \in {0, 40, 100} }

\* one more call of calculateDisplacedVolume; the previous call is kept
ProbeVolume ==
    /\ \E h \in SweepHeights(params) :
          /\ h1' = h2
          /\ v1' = v2
          /\ h2' = h
          /\ v2' = calculateDisplacedVolume(params, CalculatedLength(params), h)
    /\ UNCHANGED <<appVars, viewVars, params, solverVars, hullVars,
                   queryVars, cutVars, loadVars>>

InitVolume ==
    /\ params \in SweepParams
    /\ NoSolver
    /\ NoSweep
    /\ NoHull
    /\ NoExtras

NextVolume == ProbeVolume

SpecVolume == InitVolume /\ [][NextVolume]_vars

-----------------------------------------------------------------------------
(* Claims about the buoyancy solver *)

InSolver == wpc \in {"loop", "returned", "checked"}
HasReturned == wpc \in {"returned", "checked"}
DisplacedAt(h) == calculateDisplacedVolume(params, CalculatedLength(params), h)

\* C2: calculateWaterlineHeight returns a value h with 0 <= h <= hullHeight on
\* every return path, and throughout the loop 0 <= low <= high <= hullHeight.
C2_WaterlineWithinHull ==
    /\ InSolver => (0 <= low /\ low <= high /\ high <= U(params.hullHeight))
    /\ HasReturned => (0 <= waterline /\ waterline <= U(params.hullHeight))

\* an overloaded hull has returned: the bracket closed in on hullHeight itself
C2_Witness ==
    /\ wpc = "returned"
    /\ high = U(params.hullHeight)
    /\ low > 0
    /\ requiredVolume > DisplacedAt(U(params.hullHeight))

\* C5: calculateDisplacedVolume(params, L, h) is non-decreasing in h over
\* [0, hullHeight], across the regime boundary and for every bow segment.
C5_DisplacementMonotone ==
    /\ h1 <= h2 => v1 <= v2
    /\ h2 <= h1 => v2 <= v1

\* two heights on either side of the bilge regime boundary have been probed
C5_Witness ==
    /\ params.bilgeRadius > 0
    /\ 0 < h1 /\ h1 < U(params.bilgeRadius)
    /\ h2 > U(params.bilgeRadius)
    /\ v1 < v2

\* |vol - required| < required * 0.001, stated without forming a product
ErrorBelowPermille(vol, required) ==
    \/ Abs(vol - required) < required \div 1000
    \/ (Abs(vol - required) = required \div 1000 /\ required % 1000 > 0)

C7_BracketAlwaysValid ==
    InSolver => /\ DisplacedAt(low) <= requiredVolume
                /\ requiredVolume <= DisplacedAt(high)

\* C7 as amended: displacedVolume(low) <= requiredVolume always, and
\* requiredVolume <= displacedVolume(high) whenever the hull can carry the
\* load at all (requiredVolume <= displacedVolume(hullHeight)).
C7_BracketValidWhenAfloat ==
    InSolver =>
        /\ DisplacedAt(low) <= requiredVolume
        /\ requiredVolume <= DisplacedAt(U(params.hullHeight))
              => requiredVolume <= DisplacedAt(high)

\* both ends of the bracket have moved for a hull that floats
C7_Witness ==
    /\ wpc = "loop"
    /\ low > 0
    /\ high < U(params.hullHeight)
    /\ DisplacedAt(low) < requiredVolume
    /\ requiredVolume < DisplacedAt(high)

\* C8: for the default hull with motorWeight 10 g, batteryWeight 23 g and
\* ballastWeight 0 g, the waterline is strictly between 0 and 25 mm and
\* wouldSink is false.
C8_DefaultHullFloats ==
    (params = DEFAULT_PARAMS /\ wpc = "checked") =>
        /\ 0 < waterline
        /\ waterline < U(250)
        /\ ~sinks

\* the default hull has been solved and checked
C8_Witness ==
    /\ params = DEFAULT_PARAMS
    /\ wpc = "checked"
    /\ waterline = mid

-----------------------------------------------------------------------------
(* components/HullMesh: createHullGeometry *)

\* mesher units per millimetre and per tenth of a millimetre
MeshPerMm == 10 * 10
M(tenths) == tenths * (MeshPerMm \div 10)

BILGE_SEGMENTS == 8
OUTER_POINTS == 2 * BILGE_SEGMENTS + 4
POINTS_PER_SECTION == OUTER_POINTS * 2

\* IDX
bottomCenter == 0
leftBilgeStart == 1
leftBilgeEnd == BILGE_SEGMENTS
topLeft == BILGE_SEGMENTS + 1
topRight == BILGE_SEGMENTS + 2
rightBilgeStart == BILGE_SEGMENTS + 3
rightBilgeEnd == 2 * BILGE_SEGMENTS + 2
bottomCenterClose == 2 * BILGE_SEGMENTS + 3
innerOffset == OUTER_POINTS

sternSections == 3
bowSections == 20
numSections == (sternSections + 1) + bowSections

\* Math.sin((Math.PI / 2) * (i / (BILGE_SEGMENTS - 1))) * Trig, i = 0..7
SinTable == <<0, 2225, 4339, 6235, 7818, 9010, 9749, 10000>>
\* Math.sin(angle) * radius and Math.cos(angle) * radius for the i-th angle
SinTimes(i, radius) == MulDiv(radius, SinTable[i + 1], Trig)
CosTimes(i, radius) == MulDiv(radius, SinTable[BILGE_SEGMENTS - i], Trig)

\* Math.tan(rakeRad) * Trig for the rake angles of the model
TanOf(degrees) ==
    CASE degrees = 15 -> 2679
      [] degrees = 30 -> 5774
      [] degrees = 45 -> 10000

\* the lengths handed to createHullGeometry by HullMesh, in mesher units:
\* bowLength = calculatedLength * (bowLengthPercent / 100)
BowLength(p) == CalculatedLength(p) * p.bowLengthPercent * (MeshPerMm \div 100)
SternLength(p) == CalculatedLength(p) * MeshPerMm - BowLength(p)

\* const hullCenterZ = (bowLength - sternLength) / 2
hullCenterZ(p) == (BowLength(p) - SternLength(p)) \div 2

\* calcRakeOffset(y) at bowProgress = progress / bowSections
calcRakeOffset(p, progress, y) ==
    IF p.bowType # "raked" \/ progress = 0 THEN 0
    ELSE MulDiv(y, TanOf(p.bowRakeAngle) * progress, Trig * bowSections)

\* one profile ring of OUTER_POINTS points: bottom centre, left bilge curve,
\* top-left, top-right, right bilge curve, bottom centre again
ProfileRing(p, z, progress, hb, radius, bottom) ==
    [ k \in 1..OUTER_POINTS |->
        LET n == k - 1 IN
        IF n = bottomCenter \/ n = bottomCenterClose
        THEN <<0, bottom, z + calcRakeOffset(p, progress, bottom)>>
        ELSE IF n = topLeft
        THEN <<-hb, M(p.hullHeight), z + calcRakeOffset(p, progress, M(p.hullHeight))>>
        ELSE IF n = topRight
        THEN <<hb, M(p.hullHeight), z + calcRakeOffset(p, progress, M(p.hullHeight))>>
        ELSE IF n <= leftBilgeEnd
        THEN LET i == n - leftBilgeStart
                 x == -(hb - radius) - SinTimes(i, radius)
                 y == bottom + radius - CosTimes(i, radius)
             IN  <<x, y, z + calcRakeOffset(p, progress, y)>>
        ELSE LET i == n - rightBilgeStart
                 x == (hb - radius) + SinTimes(BILGE_SEGMENTS - 1 - i, radius)
                 y == bottom + radius - CosTimes(BILGE_SEGMENTS - 1 - i, radius)
             IN  <<x, y, z + calcRakeOffset(p, progress, y)>> ]

\* halfBeam = (beam / 2) * scale, with scale = scaleNum / bowSections
HalfBeamAt(p, scaleNum) == MulDiv(M(p.beam), scaleNum, 2 * bowSections)

\* reductionFactor = 0.5 + deepVSharpness * 0.45, in hundredths
\* (deepVSharpness = bowEntryAngle / 45)
ReductionFactor(p) == 50 + p.bowEntryAngle

\* the deepV factor taken as what is retained at the tip, not what is removed
BilgeRetainedNotReduced(p, progress) ==
    IF p.bowType = "deepV" /\ progress > 0
    THEN MulDiv(M(p.bilgeRadius),
                100 * bowSections - progress * (100 - ReductionFactor(p)),
                100 * bowSections)
    ELSE M(p.bilgeRadius)

\* effectiveBilgeRadius at bowProgress = progress / bowSections:
\* bilgeRadius * (1 - bowProgress * reductionFactor) for a deepV bow past
\* the stern, bilgeRadius otherwise
EffectiveBilgeRadius(p, progress) ==
    IF p.bowType = "deepV" /\ progress > 0
    THEN MulDiv(M(p.bilgeRadius),
                100 * bowSections - progress * ReductionFactor(p),
                100 * bowSections)
    ELSE M(p.bilgeRadius)

\* effectiveBilgeRadius * scale
ScaledBilgeRadius(p, scaleNum, progress) ==
    MulDiv(EffectiveBilgeRadius(p, progress), scaleNum, bowSections)

\* the clamp required of a collapsed section left out: only the bow tip collapses
CollapsesOnlyAtTip(p, scaleNum, isBowTip) == isBowTip

\* isBowTip || halfBeam < 0.5 || scale < 0.02
Collapses(p, scaleNum, isBowTip) ==
    \/ isBowTip
    \/ HalfBeamAt(p, scaleNum) < MeshPerMm \div 2
    \/ scaleNum * 100 < 2 * bowSections

\* addCrossSection(z, scale, bowProgress, isBowTip): the POINTS_PER_SECTION
\* vertices it pushes
addCrossSection(p, z, scaleNum, progress, isBowTip) ==
    LET halfBeam == HalfBeamAt(p, scaleNum)
        r == Min2(Min2(ScaledBilgeRadius(p, scaleNum, progress),
                       halfBeam - MeshPerMm \div 10),
                  M(p.hullHeight) - MeshPerMm \div 10)
        effectiveR == Max2(0, r)
        innerHalfBeam == Max2(MeshPerMm \div 10, halfBeam - M(p.wallThickness))
        innerR == Max2(0, effectiveR - M(p.wallThickness))
        innerBottom == M(p.wallThickness)
    IN  IF Collapses(p, scaleNum, isBowTip)
        THEN LET tipZ == z + calcRakeOffset(p, progress, M(p.hullHeight) \div 2)
             IN  [k \in 1..OUTER_POINTS |-> <<0, 0, tipZ>>]
                 \o [k \in 1..OUTER_POINTS |-> <<0, M(p.wallThickness), tipZ>>]
        ELSE ProfileRing(p, z, progress, halfBeam, effectiveR, 0)
             \o ProfileRing(p, z, progress, innerHalfBeam, innerR, innerBottom)

\* the stern loop: sections i = 0..sternSections at scale 1, bowProgress 0
AddSternSection ==
    /\ pc = "sternSections"
    /\ LET z == -SternLength(params) + (sec * SternLength(params)) \div sternSections
                - hullCenterZ(params)
       IN  vertices' = vertices \o addCrossSection(params, z, bowSections, 0, FALSE)
    /\ bilge' = EffectiveBilgeRadius(params, 0)
    /\ IF sec < sternSections
       THEN sec' = sec + 1 /\ pc' = pc
       ELSE sec' = 1 /\ pc' = "bowSections"
    /\ UNCHANGED <<appVars, viewVars, params, indices, solverVars, sweepVars,
                   queryVars, cutVars, loadVars>>

\* the bow loop: sections i = 1..bowSections, the last one the bow tip
AddBowSection ==
    /\ pc = "bowSections"
    /\ LET z == (sec * BowLength(params)) \div bowSections - hullCenterZ(params)
           scaleNum == Max2(0, bowSections - sec)
       IN  vertices' = vertices
               \o addCrossSection(params, z, scaleNum, sec, sec = bowSections)
    /\ bilge' = EffectiveBilgeRadius(params, sec)
    /\ IF sec < bowSections
       THEN sec' = sec + 1 /\ pc' = pc
       ELSE sec' = 0 /\ pc' = "faces"
    /\ UNCHANGED <<appVars, viewVars, params, indices, solverVars, sweepVars,
                   queryVars, cutVars, loadVars>>

\* addQuad(curr, next, p1, p2, flip): the two triangles it pushes
addQuad(curr, next, p1, p2, flip) ==
    IF flip
    THEN << <<curr + p1, next + p2, curr + p2>>, <<curr + p1, next + p1, next + p2>> >>
    ELSE << <<curr + p1, curr + p2, next + p2>>, <<curr + p1, next + p2, next + p1>> >>

\* for (i = 0; i < count; i++) addQuad(curr, next, from + i, from + i + 1, flip)
QuadRun(curr, next, from, count, flip) ==
    [ j \in 1..(2 * count) |->
        addQuad(curr, next, from + (j - 1) \div 2, from + (j - 1) \div 2 + 1,
                flip)[((j - 1) % 2) + 1] ]

\* the faces between section sec and section sec + 1
SectionFaces(s) ==
    LET curr == s * POINTS_PER_SECTION
        next == (s + 1) * POINTS_PER_SECTION
        io   == innerOffset
    IN  \* outer hull faces
        addQuad(curr, next, bottomCenter, leftBilgeStart, TRUE)
        \o QuadRun(curr, next, leftBilgeStart, BILGE_SEGMENTS - 1, FALSE)
        \o addQuad(curr, next, leftBilgeEnd, topLeft, FALSE)
        \o addQuad(curr, next, topRight, rightBilgeStart, FALSE)
        \o QuadRun(curr, next, rightBilgeStart, BILGE_SEGMENTS - 1, FALSE)
        \o addQuad(curr, next, rightBilgeEnd, bottomCenterClose, TRUE)
        \* inner hull faces
        \o addQuad(curr, next, io + bottomCenter, io + leftBilgeStart, TRUE)
        \o QuadRun(curr, next, io + leftBilgeStart, BILGE_SEGMENTS - 1, TRUE)
        \o addQuad(curr, next, io + leftBilgeEnd, io + topLeft, TRUE)
        \o addQuad(curr, next, io + topRight, io + rightBilgeStart, TRUE)
        \o QuadRun(curr, next, io + rightBilgeStart, BILGE_SEGMENTS - 1, TRUE)
        \o addQuad(curr, next, io + rightBilgeEnd, io + bottomCenterClose, TRUE)
        \* top rim, left then right
        \o << <<curr + topLeft, curr + io + topLeft, next + io + topLeft>>,
              <<curr + topLeft, next + io + topLeft, next + topLeft>>,
              <<curr + topRight, next + io + topRight, curr + io + topRight>>,
              <<curr + topRight, next + topRight, next + io + topRight>> >>

\* for (let sec = 0; sec < numSections - 1; sec++): one loop body
AddSectionFaces ==
    /\ pc = "faces"
    /\ indices' = indices \o SectionFaces(sec)
    /\ IF sec + 1 < numSections - 1
       THEN sec' = sec + 1 /\ pc' = pc
       ELSE sec' = 0 /\ pc' = "sternRing"
    /\ UNCHANGED <<appVars, viewVars, params, vertices, bilge, solverVars, sweepVars,
                   queryVars, cutVars, loadVars>>

\* const sternZ = -sternLength - hullCenterZ
sternZ(p) == -SternLength(p) - hullCenterZ(p)

\* the inner transom placed behind the outer one
innerSternZBehind(p) == sternZ(p) - M(p.wallThickness)

\* const innerSternZ = sternZ + wallThickness
innerSternZ(p) == sternZ(p) + M(p.wallThickness)

\* the inner profile of section 0 copied at innerSternZ
InnerSternRing(p) ==
    LET halfBeam_stern == M(p.beam) \div 2
        innerHalfBeam_stern == Max2(MeshPerMm \div 10, halfBeam_stern - M(p.wallThickness))
        r_stern == Min2(Min2(M(p.bilgeRadius), halfBeam_stern - MeshPerMm \div 10),
                        M(p.hullHeight) - MeshPerMm \div 10)
        effectiveR_stern == Max2(0, r_stern)
        innerR_stern == Max2(0, effectiveR_stern - M(p.wallThickness))
        innerBottom_stern == M(p.wallThickness)
    IN  ProfileRing(p, innerSternZ(p), 0, innerHalfBeam_stern, innerR_stern,
                    innerBottom_stern)

\* const innerSternBase = vertices.length / 3, taken when the sections are in
innerSternBase == numSections * POINTS_PER_SECTION

\* the new vertices of the inner stern face
AddInnerSternRing ==
    /\ pc = "sternRing"
    /\ vertices' = vertices \o InnerSternRing(params)
    /\ pc' = "transom"
    /\ UNCHANGED <<appVars, viewVars, params, sec, indices, bilge, solverVars, sweepVars,
                   queryVars, cutVars, loadVars>>

\* a fan around base + bottomCenter over the ring; reversed for the inner face
TransomFan(base, reversed) ==
    LET Tri(a, b) == IF reversed THEN <<base + bottomCenter, base + b, base + a>>
                                  ELSE <<base + bottomCenter, base + a, base + b>>
    IN  [ j \in 1..(topLeft - leftBilgeStart) |->
            Tri(leftBilgeStart + j - 1, leftBilgeStart + j) ]
        \o << Tri(topLeft, topRight), Tri(topRight, rightBilgeStart) >>
        \o [ j \in 1..(bottomCenterClose - rightBilgeStart) |->
            Tri(rightBilgeStart + j - 1, rightBilgeStart + j) ]

sternOuterBase == 0

\* OUTER TRANSOM FACE and INNER TRANSOM FACE
AddTransomFaces ==
    /\ pc = "transom"
    /\ indices' = indices \o TransomFan(sternOuterBase, FALSE)
                          \o TransomFan(innerSternBase, TRUE)
    /\ pc' = "sternRim"
    /\ UNCHANGED <<appVars, viewVars, params, sec, vertices, bilge, solverVars, sweepVars,
                   queryVars, cutVars, loadVars>>

\* STERN WALL RIM: outer stern ring to inner stern ring
SternWallRim ==
    LET o == sternOuterBase
        n == innerSternBase
    IN  << <<o + leftBilgeEnd, o + topLeft, n + topLeft>>,
           <<o + leftBilgeEnd, n + topLeft, n + leftBilgeEnd>> >>
        \o [ j \in 1..(2 * (BILGE_SEGMENTS - 1)) |->
               LET i == (j - 1) \div 2
                   outerCurr == o + leftBilgeStart + i
                   outerNext == o + leftBilgeStart + i + 1
                   innerCurr == n + leftBilgeStart + i
                   innerNext == n + leftBilgeStart + i + 1
               IN  IF j % 2 = 1 THEN <<outerCurr, outerNext, innerNext>>
                                ELSE <<outerCurr, innerNext, innerCurr>> ]
        \o << <<o + bottomCenter, o + leftBilgeStart, n + leftBilgeStart>>,
              <<o + bottomCenter, n + leftBilgeStart, n + bottomCenter>>,
              <<o + rightBilgeEnd, o + bottomCenterClose, n + bottomCenterClose>>,
              <<o + rightBilgeEnd, n + bottomCenterClose, n + rightBilgeEnd>> >>
        \o [ j \in 1..(2 * (BILGE_SEGMENTS - 1)) |->
               LET i == (j - 1) \div 2
                   outerCurr == o + rightBilgeStart + i
                   outerNext == o + rightBilgeStart + i + 1
                   innerCurr == n + rightBilgeStart + i
                   innerNext == n + rightBilgeStart + i + 1
               IN  IF j % 2 = 1 THEN <<outerCurr, innerCurr, innerNext>>
                                ELSE <<outerCurr, innerNext, outerNext>> ]
        \o << <<o + topRight, n + topRight, n + rightBilgeStart>>,
              <<o + topRight, n + rightBilgeStart, o + rightBilgeStart>> >>

AddSternWallRim ==
    /\ pc = "sternRim"
    /\ indices' = indices \o SternWallRim
    /\ pc' = "sternConnect"
    /\ UNCHANGED <<appVars, viewVars, params, sec, vertices, bilge, solverVars, sweepVars,
                   queryVars, cutVars, loadVars>>

\* CONNECT INNER STERN TO INNER HULL: inner stern ring to section 0's inner ring
InnerSternBridge ==
    LET n == innerSternBase
        section0Inner == 0 + innerOffset
    IN  [ j \in 1..(2 * (BILGE_SEGMENTS - 1)) |->
            LET i == (j - 1) \div 2
                sternCurr == n + leftBilgeStart + i
                sternNext == n + leftBilgeStart + i + 1
                hullCurr  == section0Inner + leftBilgeStart + i
                hullNext  == section0Inner + leftBilgeStart + i + 1
            IN  IF j % 2 = 1 THEN <<sternCurr, hullNext, sternNext>>
                             ELSE <<sternCurr, hullCurr, hullNext>> ]
        \o << <<n + leftBilgeEnd, section0Inner + topLeft, n + topLeft>>,
              <<n + leftBilgeEnd, section0Inner + leftBilgeEnd, section0Inner + topLeft>>,
              <<n + bottomCenter, section0Inner + leftBilgeStart, n + leftBilgeStart>>,
              <<n + bottomCenter, section0Inner + bottomCenter,
                section0Inner + leftBilgeStart>>,
              <<n + rightBilgeEnd, section0Inner + bottomCenterClose,
                n + bottomCenterClose>>,
              <<n + rightBilgeEnd, section0Inner + rightBilgeEnd,
                section0Inner + bottomCenterClose>> >>
        \o [ j \in 1..(2 * (BILGE_SEGMENTS - 1)) |->
            LET i == (j - 1) \div 2
                sternCurr == n + rightBilgeStart + i
                sternNext == n + rightBilgeStart + i + 1
                hullCurr  == section0Inner + rightBilgeStart + i
                hullNext  == section0Inner + rightBilgeStart + i + 1
            IN  IF j % 2 = 1 THEN <<sternCurr, sternNext, hullNext>>
                             ELSE <<sternCurr, hullNext, hullCurr>> ]
        \o << <<n + topRight, n + rightBilgeStart, section0Inner + rightBilgeStart>>,
              <<n + topRight, section0Inner + rightBilgeStart, section0Inner + topRight>> >>

ConnectInnerStern ==
    /\ pc = "sternConnect"
    /\ indices' = indices \o InnerSternBridge
    /\ pc' = "bowTip"
    /\ UNCHANGED <<appVars, viewVars, params, sec, vertices, bilge, solverVars, sweepVars,
                   queryVars, cutVars, loadVars>>

lastFullSection == (numSections - 2) * POINTS_PER_SECTION

\* the tip section taken one section too far
tipSectionPastEnd == numSections * POINTS_PER_SECTION

tipSection == (numSections - 1) * POINTS_PER_SECTION

\* the wall triangles of the bow tip for ring point i
BowWall(i) ==
    LET lf == lastFullSection
        io == innerOffset
        nextI == IF i = bottomCenterClose THEN bottomCenter ELSE i + 1
    IN  IF i = topLeft
        THEN << <<lf + topLeft, lf + io + topLeft, tipSection + io>>,
                <<lf + topLeft, tipSection + io, tipSection + 0>> >>
        ELSE IF i = topRight
        THEN << <<lf + topRight, tipSection + 0, tipSection + io>>,
                <<lf + topRight, tipSection + io, lf + io + topRight>>,
                <<lf + rightBilgeStart, lf + topRight, lf + io + topRight>>,
                <<lf + rightBilgeStart, lf + io + topRight, lf + io + rightBilgeStart>> >>
        ELSE << <<lf + nextI, lf + i, lf + io + i>>,
                <<lf + nextI, lf + io + i, lf + io + nextI>> >>

RECURSIVE BowWallFrom(_)
BowWallFrom(i) ==
    IF i > bottomCenterClose THEN <<>> ELSE BowWall(i) \o BowWallFrom(i + 1)

\* Bow tip closure: outer fan, inner fan, wall
BowTipClosure ==
    LET lf == lastFullSection
        io == innerOffset
    IN  [ j \in 1..(bottomCenterClose - bottomCenter) |->
            <<lf + (j - 1), lf + (j - 1) + 1, tipSection + 0>> ]
        \o [ j \in 1..(bottomCenterClose - bottomCenter) |->
            <<lf + io + (j - 1), tipSection + io, lf + io + (j - 1) + 1>> ]
        \o BowWallFrom(bottomCenter)

CloseBowTip ==
    /\ pc = "bowTip"
    /\ indices' = indices \o BowTipClosure
    /\ pc' = "done"
    /\ UNCHANGED <<appVars, viewVars, params, sec, vertices, bilge, solverVars, sweepVars,
                   queryVars, cutVars, loadVars>>

\* the hulls meshed: the three bow styles, the default beam and a narrow one,
\* the wall thickness in steps of the default one up to MaxWallSteps steps,
\* and the raked bow at two more rake angles
WallStep == DEFAULT_PARAMS.wallThickness
MaxWallSteps == 2

\* walls of the default hull that are degenerate: half the beam, the hull
\* height, and more than the hull height
DegenerateWalls ==
    { DEFAULT_PARAMS.beam \div 2, DEFAULT_PARAMS.hullHeight,
      DEFAULT_PARAMS.hullHeight + DEFAULT_PARAMS.beam \div 8 }

\* the entry angles of the deepV bows meshed, in degrees
EntryAngles == {0, 10, 30, 45}

HullParams ==
    { [DEFAULT_PARAMS EXCEPT !.bowType = t, !.beam = b,
                             !.wallThickness = k * WallStep] :
        t \in {"plumb", "raked", "deepV"}, b \in {80, 400}, k \in 1..MaxWallSteps }
    \cup { [DEFAULT_PARAMS EXCEPT !.bowType = "raked", !.bowRakeAngle = a] :
               a \in {15, 45} }
    \cup { [DEFAULT_PARAMS EXCEPT !.bowType = t, !.wallThickness = w] :
               t \in {"plumb", "deepV"}, w \in DegenerateWalls }
    \cup { [DEFAULT_PARAMS EXCEPT !.bowType = "deepV", !.bowEntryAngle = a] :
               a \in EntryAngles }

InitHull ==
    /\ params \in HullParams
    /\ pc = "sternSections" /\ sec = 0 /\ vertices = <<>> /\ indices = <<>>
    /\ bilge = 0
    /\ wpc = "idle" /\ requiredVolume = 0 /\ low = 0 /\ high = 0 /\ iter = 0
    /\ mid = 0 /\ volume = 0 /\ waterline = 0 /\ sinks = FALSE
    /\ NoSweep
    /\ NoExtras

NextHull ==
    \/ AddSternSection
    \/ AddBowSection
    \/ AddSectionFaces
    \/ AddInnerSternRing
    \/ AddTransomFaces
    \/ AddSternWallRim
    \/ ConnectInnerStern
    \/ CloseBowTip

SpecHull == InitHull /\ [][NextHull]_vars

-----------------------------------------------------------------------------
(* Claims about the shell mesh *)

vertexCount == numSections * POINTS_PER_SECTION + OUTER_POINTS
Meshed == pc = "done"
\* the position of the vertex with index a
Position(a) == vertices[a + 1]
\* half the re-centred length, in mesher units
HalfLength == (CalculatedLength(params) * MeshPerMm) \div 2

\* triangle t has three different positions
NonDegenerate(t) ==
    /\ Position(t[1]) # Position(t[2])
    /\ Position(t[2]) # Position(t[3])
    /\ Position(t[1]) # Position(t[3])

\* the number of non-degenerate triangles with a corner at P and a corner at Q
IncidentTriangles(P, Q) ==
    Cardinality({ k \in 1..Len(indices) :
        /\ NonDegenerate(indices[k])
        /\ \E i \in 1..3 : Position(indices[k][i]) = P
        /\ \E i \in 1..3 : Position(indices[k][i]) = Q })

\* C1: in the finished mesh every edge is incident to exactly two triangles,
\* vertices at the same position counting as one vertex: no boundary edge and
\* no edge with three or more triangles.
C1_EveryEdgeHasTwoTriangles ==
    Meshed =>
        \A k \in 1..Len(indices) :
            NonDegenerate(indices[k]) =>
                \A e \in {<<1, 2>>, <<2, 3>>, <<3, 1>>} :
                    IncidentTriangles(Position(indices[k][e[1]]),
                                      Position(indices[k][e[2]])) = 2

\* C3: every emitted triangle has three pairwise distinct vertex indices, each
\* within [0, vertexCount), vertexCount = numSections * POINTS_PER_SECTION +
\* OUTER_POINTS being the number of vertices of the finished mesh.
C3_TriangleIndicesValid ==
    /\ \A k \in 1..Len(indices) :
          LET t == indices[k]
          IN  /\ t[1] # t[2] /\ t[2] # t[3] /\ t[1] # t[3]
              /\ \A i \in 1..3 : 0 <= t[i] /\ t[i] < vertexCount
    /\ Meshed => Len(vertices) = vertexCount

\* the mesh is finished; the bow closure reaches the last vertex of the tip
\* section's inner ring and the stern closure the last vertex of the mesh
C3_Witness ==
    /\ Meshed
    /\ \E k \in 1..Len(indices) : \E i \in 1..3 : indices[k][i] = vertexCount - 1
    /\ \E k \in 1..Len(indices) : \E i \in 1..3 : indices[k][i] = tipSection + innerOffset
    /\ \E k \in 1..Len(indices) : \E i \in 1..3 : indices[k][i] = 0

\* the cross product (B - A) x (C - A) of triangle t
Normal(t) ==
    LET A == Position(t[1])
        B == Position(t[2])
        C == Position(t[3])
        u == <<B[1] - A[1], B[2] - A[2], B[3] - A[3]>>
        v == <<C[1] - A[1], C[2] - A[2], C[3] - A[3]>>
    IN  << u[2] * v[3] - u[3] * v[2],
           u[3] * v[1] - u[1] * v[3],
           u[1] * v[2] - u[2] * v[1] >>

\* the interior centroid: on the centre line, at half height, amidships
Centroid == <<0, M(params.hullHeight) \div 2, 0>>

\* the sign of Normal(t) . (A - Centroid), the products taken in two parts
NormalSplit == 256 * 128
Facing(t) ==
    LET n == Normal(t)
        A == Position(t[1])
        d == <<A[1] - Centroid[1], A[2] - Centroid[2], A[3] - Centroid[3]>>
        Q == (n[1] \div NormalSplit) * d[1] + (n[2] \div NormalSplit) * d[2]
             + (n[3] \div NormalSplit) * d[3]
        R == (n[1] % NormalSplit) * d[1] + (n[2] % NormalSplit) * d[2]
             + (n[3] % NormalSplit) * d[3]
        bound == (-R) \div NormalSplit
    IN  IF Q > bound THEN "away"
        ELSE IF Q = bound /\ (-R) % NormalSplit = 0 THEN "tangent"
        ELSE "toward"

IsOuterVertex(a) == a < innerSternBase /\ a % POINTS_PER_SECTION < innerOffset
IsInnerVertex(a) == a < innerSternBase /\ a % POINTS_PER_SECTION >= innerOffset
\* outer section quads, outer transom fan, outer bow fan
OnOuterSurface(t) == \A i \in 1..3 : IsOuterVertex(t[i])
\* inner section quads, inner bow fan; inner transom fan
OnInnerSurface(t) ==
    \/ \A i \in 1..3 : IsInnerVertex(t[i])
    \/ \A i \in 1..3 : t[i] >= innerSternBase

\* C4: every non-degenerate triangle of the outer surface has its winding
\* normal pointing away from the interior centroid, and every non-degenerate
\* triangle of the inner surface has it pointing toward the centroid.
C4_NormalsFaceAwayFromWall ==
    Meshed =>
        \A k \in 1..Len(indices) :
            LET t == indices[k]
            IN  NonDegenerate(t) =>
                  /\ OnOuterSurface(t) => Facing(t) = "away"
                  /\ OnInnerSurface(t) => Facing(t) = "toward"

\* C9: for a plumb bow the outer transom vertices lie at z = -L/2 and no
\* vertex lies further aft, the bow tip vertices lie at z = +L/2 and no vertex
\* lies further forward, and the offset inner stern ring lies at
\* z = -L/2 + wallThickness.
C9_PlumbHullExtremes ==
    (Meshed /\ params.bowType = "plumb") =>
        /\ \A a \in 0..(OUTER_POINTS - 1) : Position(a)[3] = -HalfLength
        /\ \A a \in 0..(vertexCount - 1) : Position(a)[3] >= -HalfLength
        /\ \A a \in tipSection..(tipSection + POINTS_PER_SECTION - 1) :
              Position(a)[3] = HalfLength
        /\ \A a \in 0..(vertexCount - 1) : Position(a)[3] <= HalfLength
        /\ \A a \in innerSternBase..(vertexCount - 1) :
              Position(a)[3] = -HalfLength + M(params.wallThickness)

\* the default hull is meshed: its transom is at -75 mm, its tip at +75 mm
C9_Witness ==
    /\ Meshed
    /\ params = DEFAULT_PARAMS
    /\ Position(0)[3] = -75 * MeshPerMm
    /\ Position(tipSection)[3] = 75 * MeshPerMm
    /\ Position(innerSternBase)[3] > Position(0)[3]

\* the sections placed so far
SectionsPlaced ==
    IF pc = "sternSections" THEN sec
    ELSE IF pc = "bowSections" THEN sternSections + sec
    ELSE numSections

\* section s is the collapsed one: every outer point at (0, 0), every inner
\* point at (0, wallThickness), one z for all
IsCollapsed(s) ==
    LET base == s * POINTS_PER_SECTION
    IN  /\ \A j \in 0..(OUTER_POINTS - 1) :
              /\ Position(base + j)[1] = 0
              /\ Position(base + j)[2] = 0
              /\ Position(base + innerOffset + j)[1] = 0
              /\ Position(base + innerOffset + j)[2] = M(params.wallThickness)
        /\ \A j \in 0..(POINTS_PER_SECTION - 1) :
              Position(base + j)[3] = Position(base)[3]

\* scale of section s as a number of twentieths (sternSections + 1 sections
\* at full scale, then 1 - i / bowSections)
TwentiethsAt(s) ==
    IF s <= sternSections THEN bowSections ELSE bowSections - (s - sternSections)

\* C10: the final bow section is collapsed for every bow type, so is every
\* section whose halfBeam < 0.5 or scale < 0.02, and every call of
\* addCrossSection appends exactly POINTS_PER_SECTION vertices.
C10_TipSectionCollapsed ==
    /\ pc \in {"sternSections", "bowSections"} =>
          Len(vertices) = SectionsPlaced * POINTS_PER_SECTION
    /\ \A s \in 0..(SectionsPlaced - 1) :
          ( \/ s = numSections - 1
            \/ M(params.beam) * TwentiethsAt(s) < MeshPerMm * bowSections
            \/ 100 * TwentiethsAt(s) < 2 * bowSections )
          => IsCollapsed(s)

\* a raked narrow hull has all its sections: the tip and the section before
\* it are collapsed, each at its own z, and the section before those is not
C10_Witness ==
    /\ SectionsPlaced = numSections
    /\ params.bowType = "raked"
    /\ IsCollapsed(numSections - 1)
    /\ IsCollapsed(numSections - 2)
    /\ ~IsCollapsed(numSections - 4)
    /\ Position(tipSection)[3] > Position(lastFullSection)[3]
    /\ Len(vertices) >= numSections * POINTS_PER_SECTION

\* section s has been placed and is not the collapsed one
IsFullSection(s) == s < SectionsPlaced /\ ~IsCollapsed(s)

\* read back from the rings of section s
RingHalfBeam(s) == Position(s * POINTS_PER_SECTION + topRight)[1]
RingInnerHalfBeam(s) == Position(s * POINTS_PER_SECTION + innerOffset + topRight)[1]
RingInnerBottom(s) == Position(s * POINTS_PER_SECTION + innerOffset + bottomCenter)[2]
RingInnerTop(s) == Position(s * POINTS_PER_SECTION + innerOffset + topRight)[2]

\* wallThickness >= beam / 2 or wallThickness >= hullHeight
DegenerateWall ==
    \/ 2 * params.wallThickness >= params.beam
    \/ params.wallThickness >= params.hullHeight

\* C11: with wallThickness >= beam/2 or wallThickness >= hullHeight the rings
\* of every non-collapsed section stay consistent: 0 < innerHalfBeam <=
\* halfBeam, and the inner bottom height (wallThickness) does not exceed the
\* inner top height (hullHeight).
C11_DegenerateWallClamped ==
    DegenerateWall =>
        \A s \in 0..(numSections - 1) :
            IsFullSection(s) =>
                /\ 0 < RingInnerHalfBeam(s)
                /\ RingInnerHalfBeam(s) <= RingHalfBeam(s)
                /\ RingInnerBottom(s) <= RingInnerTop(s)

\* the half of C11 the code keeps: the inner half beam is clamped to a
\* positive value no wider than the outer ring
C11_InnerHalfBeamClamped ==
    DegenerateWall =>
        \A s \in 0..(numSections - 1) :
            IsFullSection(s) =>
                /\ 0 < RingInnerHalfBeam(s)
                /\ RingInnerHalfBeam(s) <= RingHalfBeam(s)

\* a hull whose wall is half its beam is meshed: the clamp to 0.1 mm acted
C11_Witness ==
    /\ Meshed
    /\ 2 * params.wallThickness >= params.beam
    /\ IsFullSection(0)
    /\ RingInnerHalfBeam(0) = MeshPerMm \div 10

-----------------------------------------------------------------------------
(* utils/crossSection: computeYCrossSection, computeXCrossSection,          *)
(* computeZCrossSection.  Lengths are in mesher units; a returned geometry  *)
(* is kept as "geometry", its contour coordinates are not kept.             *)

\* const numPoints = 64 of computeYCrossSection and computeXCrossSection
numPoints == 64

\* zMin = -sternLength - hullCenterZ and zMax = bowLength - hullCenterZ
QueryZMin(p) == -SternLength(p) - hullCenterZ(p)
QueryZMax(p) == BowLength(p) - hullCenterZ(p)

\* r = Math.min(bilgeRadius, halfBeam - 0.1, hullHeight - 0.1)
QueryR(p) ==
    Min2(Min2(M(p.bilgeRadius), M(p.beam) \div 2 - MeshPerMm \div 10),
         M(p.hullHeight) - MeshPerMm \div 10)

\* a contour sample i lies in the bow: z > -hullCenterZ for
\* z = zMin + (i / numPoints) * (zMax - zMin)
SampleInBow(p, i) ==
    i * (SternLength(p) + BowLength(p)) > numPoints * SternLength(p)

\* value * scale at contour sample i, scale = Math.max(0, 1 - bowT) with
\* bowT = (z + hullCenterZ) / bowLength
SampleScaled(p, i, value) ==
    IF SampleInBow(p, i)
    THEN MulDiv(value, (numPoints - i) * 100, numPoints * p.bowLengthPercent)
    ELSE value

\* scale < 0.01 at contour sample i
SampleAtTip(p, i) ==
    SampleInBow(p, i) /\ (numPoints - i) * 100 * 100 < numPoints * p.bowLengthPercent

\* computeYCrossSection: the points pushed on outerContour by one of its two
\* loops (a sample is skipped when dxSq < 0)
YOuterSamples(p, y) ==
    { i \in 0..numPoints :
        LET scaledR == SampleScaled(p, i, QueryR(p))
        IN  \/ SampleAtTip(p, i)
            \/ y > scaledR
            \/ scaledR * scaledR - (y - scaledR) * (y - scaledR) >= 0 }

\* computeYCrossSection(params, yPosition, calculatedLength)
computeYCrossSection(p, y) ==
    IF y < 0 \/ y > M(p.hullHeight) THEN "null"
    ELSE IF 2 * Cardinality(YOuterSamples(p, y)) < 3 THEN "null"
    ELSE "geometry"

\* the guard of computeXCrossSection made strict on the wrong side
XOutsideBeamOrOnIt(p, x) == Abs(x) >= M(p.beam) \div 2

\* Math.abs(xPosition) > halfBeam
XOutsideBeam(p, x) == Abs(x) > M(p.beam) \div 2

\* computeXCrossSection: the samples kept by each of its two outer loops
\* (a sample is skipped when absX > scaledHalfBeam)
XOuterSamples(p, x) ==
    { i \in 0..numPoints : Abs(x) <= SampleScaled(p, i, M(p.beam) \div 2) }

\* computeXCrossSection(params, xPosition, calculatedLength)
computeXCrossSection(p, x) ==
    IF XOutsideBeam(p, x) THEN "null"
    ELSE IF 2 * Cardinality(XOuterSamples(p, x)) < 3 THEN "null"
    ELSE "geometry"

\* const numPoints = 32 of computeZCrossSection
numPointsZ == 32

\* computeZCrossSection: scale < 0.02, scale = Math.max(0, 1 - bowT)
ZTooCloseToTip(p, z) ==
    /\ z > -hullCenterZ(p)
    /\ (QueryZMax(p) - z) * 100 < 2 * BowLength(p)

\* computeZCrossSection(params, zPosition, calculatedLength): the outer
\* contour always has 2 * (numPointsZ + 1) + 2 points
computeZCrossSection(p, z) ==
    IF z < QueryZMin(p) \/ z > QueryZMax(p) THEN "null"
    ELSE IF ZTooCloseToTip(p, z) THEN "null"
    ELSE IF 2 * (numPointsZ + 1) + 2 < 3 THEN "null"
    ELSE "geometry"

\* a length times scale = num / den, rounded toward zero
Scaled(a, num, den) == IF a >= 0 THEN MulDiv(a, num, den) ELSE -MulDiv(-a, num, den)

\* computeZCrossSection: halfBeam, innerHalfBeam, r and innerR of the contours,
\* with scale = Math.max(0, 1 - bowT) in the bow and 1 in the stern
ZOutline(p, z) ==
    LET d == IF z > -hullCenterZ(p) THEN z + hullCenterZ(p) ELSE 0
        num == Max2(0, BowLength(p) - d)
        den == BowLength(p)
    IN  [halfBeam |-> Scaled(M(p.beam) \div 2, num, den),
         innerHalfBeam |-> Max2(MeshPerMm \div 10,
                                Scaled(M(p.beam) \div 2 - M(p.wallThickness), num, den)),
         r |-> Scaled(Min2(Min2(M(p.bilgeRadius), M(p.beam) \div 2 - MeshPerMm \div 10),
                           M(p.hullHeight) - MeshPerMm \div 10), num, den),
         innerR |-> Max2(0, Scaled(M(p.bilgeRadius) - M(p.wallThickness), num, den))]

\* the z of bow section s of the mesher: (s / bowSections) * bowLength - hullCenterZ
SectionZ(p, s) == (s * BowLength(p)) \div bowSections - hullCenterZ(p)

\* the positions asked for along an extent [lo, hi]: one unit outside at
\* either end, both ends, and QueryDivisions equal steps between them
QueryDivisions == 8
QueryPositions(lo, hi) ==
    { lo - 1, hi + 1 }
    \cup { lo + ((hi - lo) * k) \div QueryDivisions : k \in 0..QueryDivisions }

\* ComputedCrossSection: the function chosen by the plane's dominant axis
ComputedCrossSection ==
    \E a \in {"x", "y", "z"} :
        /\ axis' = a
        /\ \/ /\ a = "y"
              /\ \E y \in QueryPositions(0, M(params.hullHeight)) :
                    /\ position' = y /\ result' = computeYCrossSection(params, y)
                    /\ outline' = NoOutline
           \/ /\ a = "x"
              /\ \E x \in QueryPositions(-(M(params.beam) \div 2), M(params.beam) \div 2) :
                    /\ position' = x /\ result' = computeXCrossSection(params, x)
                    /\ outline' = NoOutline
           \/ /\ a = "z"
              /\ \E z \in QueryPositions(QueryZMin(params), QueryZMax(params))
                          \cup { QueryZMax(params) - (2 * BowLength(params)) \div 100,
                                 QueryZMax(params) - (2 * BowLength(params)) \div 100 + 1 }
                          \cup { SectionZ(params, s) : s \in 1..bowSections } :
                    /\ position' = z /\ result' = computeZCrossSection(params, z)
                    /\ outline' = IF computeZCrossSection(params, z) = "geometry"
                                  THEN ZOutline(params, z) ELSE NoOutline
        /\ UNCHANGED <<appVars, viewVars, params, solverVars, sweepVars, hullVars, cutVars, loadVars>>

\* the hulls queried: bowLengthPercent over its documented range 20-60
QueryParams ==
    { [DEFAULT_PARAMS EXCEPT !.beam = b, !.bilgeRadius = r, !.bowLengthPercent = pct] :
        b \in {200, 400}, r \in {0, 50}, pct \in {20, 40, 60} }

InitQuery ==
    /\ params \in QueryParams
    /\ NoSolver /\ NoSweep /\ NoHull /\ NoExtras

NextQuery == ComputedCrossSection

SpecQuery == InitQuery /\ [][NextQuery]_vars

\* a query has been answered
Queried == result = "geometry" \/ position # 0 \/ axis # "y"

\* the position is at least 2% of the bow length aft of the bow tip
ShortOfBowTip ==
    axis = "z" => (QueryZMax(params) - position) * 100 >= 2 * BowLength(params)

\* the position is outside the hull's extent along the queried axis
OutOfDomain ==
    \/ axis = "y" /\ (position < 0 \/ position > M(params.hullHeight))
    \/ axis = "x" /\ 2 * Abs(position) > M(params.beam)
    \/ axis = "z" /\ (position < -HalfLength \/ position > HalfLength)

-----------------------------------------------------------------------------
(* utils/planeIntersection: connectSegmentsIntoLoops.  Points are triples   *)
(* in units of 1/200 mm, so that the matching tolerance is two units.       *)

CutPerMm == 2 * MeshPerMm

\* const epsilon = 0.01
epsilon == CutPerMm \div 100

DistSq(a, b) ==
    (a[1] - b[1]) * (a[1] - b[1]) + (a[2] - b[2]) * (a[2] - b[2])
    + (a[3] - b[3]) * (a[3] - b[3])

\* pointsEqual = a.distanceTo(b) < epsilon
pointsEqual(a, b) == DistSq(a, b) < epsilon * epsilon

\* the unused segments one of whose ends matches the point
Connecting(point, excludeIndices) ==
    { i \in 1..Len(segments) :
        /\ i \notin excludeIndices
        /\ \/ pointsEqual(segments[i].start, point)
           \/ pointsEqual(segments[i].end, point) }

SetMin(S) == CHOOSE i \in S : \A j \in S : i <= j

\* findConnectingSegment: the first such segment, reversed when it is its end
\* that matches and not its start
findConnectingSegment(point, excludeIndices) ==
    LET i == SetMin(Connecting(point, excludeIndices))
    IN  [index |-> i, reverse |-> ~pointsEqual(segments[i].start, point)]

\* while (used.size < segments.length): start a new loop with the first
\* unused segment
StartLoop ==
    /\ cpc = "connect"
    /\ Cardinality(used) < Len(segments)
    /\ LET startIdx == SetMin({ i \in 1..Len(segments) : i \notin used })
       IN  /\ loop' = <<segments[startIdx].start, segments[startIdx].end>>
           /\ currentEnd' = segments[startIdx].end
           /\ used' = used \cup {startIdx}
    /\ iterations' = 0
    /\ cpc' = "extend"
    /\ UNCHANGED <<appVars, viewVars, params, solverVars, sweepVars, hullVars, queryVars, loadVars,
                   plane, segments, loops, cap>>

\* one pass of while (iterations < maxIterations) that finds a next segment
ExtendLoop ==
    /\ cpc = "extend"
    /\ iterations < Len(segments)
    /\ Connecting(currentEnd, used) # {}
    /\ LET next == findConnectingSegment(currentEnd, used)
           seg == segments[next.index]
           far == IF next.reverse THEN seg.start ELSE seg.end
       IN  /\ used' = used \cup {next.index}
           /\ loop' = Append(loop, far)
           /\ currentEnd' = far
           /\ cpc' = IF pointsEqual(far, loop[1]) THEN "closed" ELSE "extend"
    /\ iterations' = iterations + 1
    /\ UNCHANGED <<appVars, viewVars, params, solverVars, sweepVars, hullVars, queryVars, loadVars,
                   plane, segments, loops, cap>>

\* the while loop is left (closed, nothing connects, or maxIterations
\* reached): if (loop.length >= 3) loops.push(loop)
FinishLoop ==
    /\ \/ cpc = "closed"
       \/ /\ cpc = "extend"
          /\ \/ iterations >= Len(segments)
             \/ Connecting(currentEnd, used) = {}
    /\ loops' = IF Len(loop) >= 3 THEN Append(loops, loop) ELSE loops
    /\ cpc' = "connect"
    /\ UNCHANGED <<appVars, viewVars, params, solverVars, sweepVars, hullVars, queryVars, loadVars,
                   plane, segments, used, loop, currentEnd, iterations, cap>>

\* return loops
ReturnLoops ==
    /\ cpc = "connect"
    /\ Cardinality(used) >= Len(segments)
    /\ cpc' = "loops"
    /\ UNCHANGED <<appVars, viewVars, params, solverVars, sweepVars, hullVars, queryVars, loadVars,
                   plane, segments, used, loops, loop, currentEnd, iterations, cap>>

\* the segment lists given to connectSegmentsIntoLoops: up to MaxSegments
\* segments between four points, two of them within tolerance of each other
MaxSegments == 3
SegmentEnds == { <<0, 0, 0>>, <<1, 0, 0>>, <<40, 0, 0>>, <<40, 40, 0>> }
SegmentChoices ==
    { g \in [start : SegmentEnds, end : SegmentEnds] : g.start # g.end }
SegmentLists ==
    UNION { [1..n -> SegmentChoices] : n \in 1..MaxSegments }

InitConnect ==
    /\ params = DEFAULT_PARAMS
    /\ NoUI /\ NoSolver /\ NoSweep /\ NoHull /\ NoQuery /\ NoLoad
    /\ cpc = "connect"
    /\ plane = [normal |-> <<0, 0, 1>>, constant |-> 0]
    /\ segments \in SegmentLists
    /\ used = {}
    /\ loops = <<>>
    /\ loop = <<>>
    /\ currentEnd = <<0, 0, 0>>
    /\ iterations = 0
    /\ cap = [outer |-> <<>>, holes |-> <<>>, all3DPoints |-> <<>>]

NextConnect == StartLoop \/ ExtendLoop \/ FinishLoop \/ ReturnLoops

SpecConnect == InitConnect /\ [][NextConnect]_vars

\* the loop's last point is within the tolerance of its first
IsClosedLoop(l) == pointsEqual(l[Len(l)], l[1])

\* C13: every loop returned by connectSegmentsIntoLoops is closed and has at
\* least 3 points: its last point lies within tolerance 0.01 of its first.
C13_ReturnedLoopsClosed ==
    cpc = "loops" =>
        \A k \in 1..Len(loops) : Len(loops[k]) >= 3 /\ IsClosedLoop(loops[k])

\* the part of C13 that holds: no returned loop has fewer than 3 points
C13_ReturnedLoopsHaveThreePoints ==
    \A k \in 1..Len(loops) : Len(loops[k]) >= 3

\* a chain of two segments that does not come back to its start was returned
C13_Witness ==
    /\ cpc = "loops"
    /\ \E k \in 1..Len(loops) : Len(loops[k]) = 3 /\ ~IsClosedLoop(loops[k])

-----------------------------------------------------------------------------
(* utils/planeIntersection: calculateSignedArea, triangulateCrossSection.   *)
(* Areas are counted in halves of a square unit, so that the division by 2  *)
(* of the shoelace sum is exact.                                            *)

RECURSIVE ShoelaceFrom(_, _)
ShoelaceFrom(points, i) ==
    IF i > Len(points) THEN 0
    ELSE LET j == (i % Len(points)) + 1
         IN  points[i][1] * points[j][2] - points[j][1] * points[i][2]
             + ShoelaceFrom(points, i + 1)

\* calculateSignedArea(points), positive = CCW, negative = CW
calculateSignedArea(points) == ShoelaceFrom(points, 1)

\* projectTo2D, chosen by the dominant component of the plane's normal
projectTo2D(normal, v) ==
    LET absX == Abs(normal[1])
        absY == Abs(normal[2])
        absZ == Abs(normal[3])
    IN  IF absY >= absX /\ absY >= absZ THEN <<v[1], v[3]>>
        ELSE IF absX >= absZ THEN <<v[2], v[3]>>
        ELSE <<v[1], v[2]>>

\* const area = Math.abs(calculateSignedArea(points2D))
LoopArea(normal, l) ==
    Abs(calculateSignedArea([i \in 1..Len(l) |-> projectTo2D(normal, l[i])]))

\* the comparator of the sort with its operands swapped
SmallerAreaFirst(a, b) == a - b < 0

\* loops2D.sort((a, b) => b.area - a.area): a is placed before b
LargerAreaFirst(a, b) == b - a < 0

\* the loops of at least 3 points, sorted (the sort is stable)
RECURSIVE SortedLoops2D(_, _, _)
SortedLoops2D(normal, ls, n) ==
    IF n = 0 THEN <<>>
    ELSE LET sorted == SortedLoops2D(normal, ls, n - 1)
             l == ls[n]
             k == Cardinality({ i \in 1..Len(sorted) :
                     ~LargerAreaFirst(LoopArea(normal, l), LoopArea(normal, sorted[i])) })
         IN  IF Len(l) < 3 THEN sorted
             ELSE SubSeq(sorted, 1, k) \o <<l>> \o SubSeq(sorted, k + 1, Len(sorted))

RECURSIVE Concatenated(_)
Concatenated(ls) ==
    IF ls = <<>> THEN <<>> ELSE Head(ls) \o Concatenated(Tail(ls))

\* triangulateCrossSection(loops, plane).  THREE.ShapeUtils.triangulateShape
\* is a library call: whether it returns any triangle is left open.
triangulateCrossSection ==
    /\ cpc = "loops"
    /\ LET loops2D == SortedLoops2D(plane.normal, loops, Len(loops))
       IN  \/ /\ loops2D = <<>>
              /\ cpc' = "null"
              /\ UNCHANGED cap
           \/ /\ loops2D # <<>>
              /\ \E anyTriangle \in BOOLEAN :
                    IF anyTriangle
                    THEN /\ cpc' = "cap"
                         /\ cap' = [outer |-> Head(loops2D),
                                    holes |-> Tail(loops2D),
                                    all3DPoints |-> Concatenated(loops2D)]
                    ELSE /\ cpc' = "null"
                         /\ UNCHANGED cap
    /\ UNCHANGED <<appVars, viewVars, params, solverVars, sweepVars, hullVars, queryVars, loadVars,
                   plane, segments, used, loops, loop, currentEnd, iterations>>

\* the loops given to triangulateCrossSection: up to MaxLoops of these
MaxLoops == 3
LoopChoices ==
    { << <<0, 0, 0>>, <<80, 0, 0>>, <<80, 80, 0>>, <<0, 80, 0>>, <<0, 0, 0>> >>,
      << <<20, 20, 0>>, <<20, 40, 0>>, <<40, 40, 0>>, <<40, 20, 0>> >>,
      << <<50, 50, 0>>, <<70, 50, 0>>, <<70, 70, 0>>, <<50, 70, 0>> >>,
      << <<10, 50, 0>>, <<30, 50, 0>>, <<20, 70, 0>> >>,
      << <<0, 0, 0>>, <<0, 60, 0>>, <<0, 60, 60>>, <<0, 0, 60>> >>,
      << <<5, 5, 0>>, <<6, 5, 0>> >> }
NormalChoices == { <<0, 0, 1>>, <<1, 0, 0>>, <<1, 1, 0>> }

InitTriangulate ==
    /\ params = DEFAULT_PARAMS
    /\ NoUI /\ NoSolver /\ NoSweep /\ NoHull /\ NoQuery /\ NoLoad
    /\ cpc = "loops"
    /\ \E n \in NormalChoices : plane = [normal |-> n, constant |-> 0]
    /\ loops \in UNION { [1..n -> LoopChoices] : n \in 0..MaxLoops }
    /\ segments = <<>>
    /\ used = {}
    /\ loop = <<>>
    /\ currentEnd = <<0, 0, 0>>
    /\ iterations = 0
    /\ cap = [outer |-> <<>>, holes |-> <<>>, all3DPoints |-> <<>>]

NextTriangulate == triangulateCrossSection

SpecTriangulate == InitTriangulate /\ [][NextTriangulate]_vars

\* the loops the cap is made of, outer first
CapLoops == <<cap.outer>> \o cap.holes

\* how many times a loop occurs in a list of loops
Occurrences(l, ls) == Cardinality({ i \in 1..Len(ls) : ls[i] = l })

-----------------------------------------------------------------------------
(* utils/planeIntersection: computePlaneIntersection on the shell mesh,     *)
(* followed by connectSegmentsIntoLoops and triangulateCrossSection.        *)

\* the position of the vertex with index a, in units of 1/200 mm
CutPosition(a) ==
    LET v == vertices[a + 1]
    IN  <<v[1] * (CutPerMm \div MeshPerMm), v[2] * (CutPerMm \div MeshPerMm),
          v[3] * (CutPerMm \div MeshPerMm)>>

\* plane.distanceToPoint(v) = normal . v + constant
distanceToPoint(pl, v) ==
    pl.normal[1] * v[1] + pl.normal[2] * v[2] + pl.normal[3] * v[3] + pl.constant

\* (d0 > 0 && d1 < 0) || (d0 < 0 && d1 > 0)
SignChange(da, db) == (da > 0 /\ db < 0) \/ (da < 0 /\ db > 0)

\* new THREE.Vector3().lerpVectors(a, b, t) with t = da / (da - db)
lerpVectors(a, b, da, db) ==
    [ c \in 1..3 |->
        IF b[c] >= a[c]
        THEN a[c] + MulDiv(b[c] - a[c], Abs(da), Abs(da - db))
        ELSE a[c] - MulDiv(a[c] - b[c], Abs(da), Abs(da - db)) ]

\* the intersections array of one triangle
Intersections(pl, tri) ==
    LET p0 == CutPosition(tri[1])
        p1 == CutPosition(tri[2])
        p2 == CutPosition(tri[3])
        d0 == distanceToPoint(pl, p0)
        d1 == distanceToPoint(pl, p1)
        d2 == distanceToPoint(pl, p2)
        edge01 == IF SignChange(d0, d1) THEN <<lerpVectors(p0, p1, d0, d1)>>
                  ELSE IF d0 = 0 THEN <<p0>>
                  ELSE <<>>
        edge12 == IF SignChange(d1, d2) THEN <<lerpVectors(p1, p2, d1, d2)>>
                  ELSE IF d1 = 0 /\ Len(edge01) = 0 THEN <<p1>>
                  ELSE <<>>
        edge20 == IF SignChange(d2, d0) THEN <<lerpVectors(p2, p0, d2, d0)>>
                  ELSE IF d2 = 0 /\ Len(edge01 \o edge12) < 2 THEN <<p2>>
                  ELSE <<>>
    IN  edge01 \o edge12 \o edge20

\* the triangles that give a segment: exactly 2 intersection points
Cutting(pl) ==
    { k \in 1..Len(indices) : Len(Intersections(pl, indices[k])) = 2 }

\* the segments array, in the order of the triangles
Segments(pl) ==
    LET S == Cutting(pl)
        at == [ j \in 1..Cardinality(S) |->
                  CHOOSE k \in S : Cardinality({ i \in S : i < k }) = j - 1 ]
    IN  [ j \in 1..Cardinality(S) |->
            [start |-> Intersections(pl, indices[at[j]])[1],
             end   |-> Intersections(pl, indices[at[j]])[2]] ]

\* the planes of the cuts: normal +z, at CutDivisions positions per stern
\* section spacing (the stern sections themselves included)
CutDivisions == 2
CutPlanes(p) ==
    { [normal |-> <<0, 0, 1>>,
       constant |-> -((CutPerMm \div MeshPerMm)
                      * (sternZ(p) + (SternLength(p) * j) \div (sternSections * CutDivisions)))] :
        j \in 1..(sternSections * CutDivisions - 1) }

\* computePlaneIntersection(geometry, plane) up to its call of
\* connectSegmentsIntoLoops
computePlaneIntersection ==
    /\ pc = "done"
    /\ cpc = "idle"
    /\ \E pl \in CutPlanes(params) :
          /\ plane' = pl
          /\ segments' = Segments(pl)
    /\ cpc' = "connect"
    /\ UNCHANGED <<appVars, viewVars, params, solverVars, sweepVars, hullVars, queryVars, loadVars,
                   used, loops, loop, currentEnd, iterations, cap>>

\* the shells cut: square bilge, wall thinner than half the beam
CutParams ==
    { [DEFAULT_PARAMS EXCEPT !.bilgeRadius = 0, !.beam = b, !.wallThickness = w] :
        b \in {200, 400}, w \in {WallStep, 2 * WallStep} }

InitCut ==
    /\ params \in CutParams
    /\ pc = "sternSections" /\ sec = 0 /\ vertices = <<>> /\ indices = <<>>
    /\ bilge = 0
    /\ NoSolver /\ NoSweep /\ NoExtras

NextCut ==
    \/ NextHull
    \/ computePlaneIntersection
    \/ StartLoop
    \/ ExtendLoop
    \/ FinishLoop
    \/ ReturnLoops
    \/ triangulateCrossSection

SpecCut == InitCut /\ [][NextCut]_vars

\* beam * hullHeight - (beam - 2 * wallThickness) * (hullHeight - wallThickness),
\* in the units of LoopArea
WallSectionArea(p) ==
    LET u == CutPerMm \div 10
    IN  2 * ((p.beam * u) * (p.hullHeight * u)
             - ((p.beam - 2 * p.wallThickness) * u)
               * ((p.hullHeight - p.wallThickness) * u))

\* the sum of the areas of a list of loops
RECURSIVE TotalArea(_, _)
TotalArea(normal, ls) ==
    IF ls = <<>> THEN 0
    ELSE LoopArea(normal, Head(ls)) + TotalArea(normal, Tail(ls))

\* the area of the cap: outer loop minus holes
CappedArea == LoopArea(plane.normal, cap.outer) - TotalArea(plane.normal, cap.holes)

\* two areas agree to one part in a thousand
AreaWithinTolerance(a, b) == Abs(a - b) * 1000 <= b

\* no vertex of the mesh lies on the cutting plane
PlaneBetweenSections ==
    \A a \in 0..(Len(vertices) - 1) : distanceToPoint(plane, CutPosition(a)) # 0

\* C15: the cut of the shell of a hull with bilgeRadius 0 and wallThickness <
\* beam / 2 by a z-normal plane through the stern run gives exactly one outer
\* loop and exactly one hole loop, and the capped area (outer minus hole) is
\* beam * hullHeight - (beam - 2 * wallThickness) * (hullHeight - wallThickness)
\* within tolerance.
C15_SternCutOuterAndOneHole ==
    cpc \in {"loops", "cap", "null"} =>
        /\ Len(loops) = 2
        /\ cpc = "cap" =>
              /\ Len(cap.holes) = 1
              /\ AreaWithinTolerance(CappedArea, WallSectionArea(params))

\* what holds of the cut when the plane passes between two sections: one
\* loop has the wall's area, every other loop has no area
C15_OneLoopWithWallArea ==
    (cpc = "cap" /\ PlaneBetweenSections) =>
        /\ LoopArea(plane.normal, cap.outer) = WallSectionArea(params)
        /\ \A h \in 1..Len(cap.holes) : LoopArea(plane.normal, cap.holes[h]) = 0

\* a cut between two sections was capped with more than one hole
C15_Witness ==
    /\ cpc = "cap"
    /\ PlaneBetweenSections
    /\ Len(cap.holes) > 1

\* a cut through the vertices of a stern section was capped with an outer
\* loop that is not closed
C15_WitnessOnSection ==
    /\ cpc = "cap"
    /\ ~PlaneBetweenSections
    /\ ~IsClosedLoop(cap.outer)

-----------------------------------------------------------------------------
(* types/boatParams: loadParams; utils/fileOperations: saveParamsToFile,    *)
(* loadParamsFromFile.  A JavaScript object is a function from the names of *)
(* its properties.                                                          *)

\* { ...saved, ...DEFAULT_PARAMS }: the defaults written over the saved values
DefaultsOverSaved(record) ==
    [ f \in DOMAIN DEFAULT_PARAMS \cup DOMAIN record |->
        IF f \in DOMAIN DEFAULT_PARAMS THEN DEFAULT_PARAMS[f] ELSE record[f] ]

\* loadParams(saved) = { ...DEFAULT_PARAMS, ...saved }
loadParams(record) ==
    [ f \in DOMAIN DEFAULT_PARAMS \cup DOMAIN record |->
        IF f \in DOMAIN record THEN record[f] ELSE DEFAULT_PARAMS[f] ]

\* the params of the save files read: every choice of some of three known
\* fields and of one field BoatParams does not have, and complete records
PartialRecords ==
    { [ f \in fs |->
          CASE f = "beam" -> b
            [] f = "wallThickness" -> w
            [] f = "bowType" -> t
            [] OTHER -> 1 ] :
        fs \in SUBSET {"beam", "wallThickness", "bowType", "keelDepth"},
        b \in {80, DEFAULT_PARAMS.beam},
        w \in {DEFAULT_PARAMS.wallThickness, 2 * WallStep},
        t \in {"raked", "deepV"} }
CompleteRecords ==
    { [DEFAULT_PARAMS EXCEPT !.beam = b, !.bowType = t, !.ballastWeight = m] :
        b \in {80, DEFAULT_PARAMS.beam}, t \in {"plumb", "deepV"}, m \in {0, 25} }

\* loadParamsFromFile: data = JSON.parse(text), resolve(loadParams(data.params))
loadParamsFromFile ==
    /\ loaded = <<>>
    /\ loaded' = loadParams(saved)
    /\ params' = loaded'
    /\ UNCHANGED <<appVars, viewVars, saved, solverVars, sweepVars, hullVars, queryVars, cutVars>>

\* saveParamsToFile(params): the params property of the file written, as
\* JSON.parse reads it back
saveParamsToFile ==
    /\ loaded # <<>>
    /\ saved # params
    /\ saved' = params
    /\ loaded' = <<>>
    /\ UNCHANGED <<appVars, viewVars, params, solverVars, sweepVars, hullVars, queryVars, cutVars>>

InitLoad ==
    /\ params = DEFAULT_PARAMS
    /\ NoUI /\ NoSolver /\ NoSweep /\ NoHull /\ NoQuery /\ NoCut
    /\ saved \in PartialRecords \cup CompleteRecords
    /\ loaded = <<>>

NextLoad == loadParamsFromFile \/ saveParamsToFile

SpecLoad == InitLoad /\ [][NextLoad]_vars

\* C16: loadParams(saved) returns, for every field, the saved value when the
\* field is present in saved and the DEFAULT_PARAMS value when it is missing,
\* whatever fields saved has; a complete record comes back unchanged; and
\* loading the result again changes nothing.
C16_LoadParamsMergesDefaults ==
    loaded # <<>> =>
        /\ \A f \in DOMAIN saved : f \in DOMAIN loaded /\ loaded[f] = saved[f]
        /\ \A f \in DOMAIN DEFAULT_PARAMS \ DOMAIN saved :
              f \in DOMAIN loaded /\ loaded[f] = DEFAULT_PARAMS[f]
        /\ DOMAIN loaded = DOMAIN DEFAULT_PARAMS \cup DOMAIN saved
        /\ (DOMAIN saved = DOMAIN DEFAULT_PARAMS) => loaded = saved
        /\ loadParams(loaded) = loaded

\* a file with one known field changed, one unknown field and the other
\* fields missing has been loaded
C16_Witness ==
    /\ loaded # <<>>
    /\ DOMAIN saved = {"beam", "keelDepth"}
    /\ saved.beam # DEFAULT_PARAMS.beam
    /\ loaded.beam = saved.beam
    /\ loaded.hullHeight = DEFAULT_PARAMS.hullHeight

-----------------------------------------------------------------------------
(* Claims about the bilge radius and the winding of the section faces *)

\* bowProgress of section s as a number of twentieths
ProgressAt(s) == IF s <= sternSections THEN 0 ELSE s - sternSections

\* read back from the rings of section s: the height reached by the outer
\* bilge arc, and by the inner one above the inner bottom
RingEffectiveR(s) == Position(s * POINTS_PER_SECTION + leftBilgeEnd)[2]
RingInnerR(s) ==
    Position(s * POINTS_PER_SECTION + innerOffset + leftBilgeEnd)[2] - RingInnerBottom(s)

\* the points of the left and of the right bilge arc of a ring
LeftArc == leftBilgeStart..leftBilgeEnd
RightArc == rightBilgeStart..rightBilgeEnd

\* the radius clamp and its consequences for the radii of section s
RadiiClamped(s) ==
    /\ RingEffectiveR(s)
          = Max2(0, Min2(Min2(MulDiv(EffectiveBilgeRadius(params, ProgressAt(s)),
                                     TwentiethsAt(s), bowSections),
                              RingHalfBeam(s) - MeshPerMm \div 10),
                         M(params.hullHeight) - MeshPerMm \div 10))
    /\ 0 <= RingEffectiveR(s)
    /\ RingEffectiveR(s) < RingHalfBeam(s)
    /\ RingEffectiveR(s) < M(params.hullHeight)
    /\ 0 <= RingInnerR(s)
    /\ RingInnerR(s) <= RingInnerHalfBeam(s)

\* no bilge arc of the ring starting at vertex base crosses the centerline
ArcsKeepTheirSide(base) ==
    /\ \A j \in LeftArc : Position(base + j)[1] <= 0
    /\ \A j \in RightArc : Position(base + j)[1] >= 0

\* no bilge arc of the ring starting at vertex base rises above the top edge
ArcsBelowTopEdge(base) ==
    \A j \in LeftArc \cup RightArc :
        Position(base + j)[2] <= Position(base + topLeft)[2]

\* C17: in every non-collapsed section effectiveR = max(0, min(
\* effectiveBilgeRadius * scale, halfBeam - 0.1, hullHeight - 0.1)), so
\* 0 <= effectiveR < halfBeam, effectiveR < hullHeight and 0 <= innerR <=
\* innerHalfBeam; on both rings the left bilge arc stays at x <= 0, the right
\* one at x >= 0, and no arc rises above the top edge.
C17_BilgeArcsStayInside ==
    \A s \in 0..(numSections - 1) :
        IsFullSection(s) =>
            /\ RadiiClamped(s)
            /\ ArcsKeepTheirSide(s * POINTS_PER_SECTION)
            /\ ArcsKeepTheirSide(s * POINTS_PER_SECTION + innerOffset)
            /\ ArcsBelowTopEdge(s * POINTS_PER_SECTION)
            /\ ArcsBelowTopEdge(s * POINTS_PER_SECTION + innerOffset)

\* the part of C17 that holds of every hull: the radii, the sides of the
\* arcs, and the height of the arcs of the outer ring
C17_RadiiAndOuterArcs ==
    \A s \in 0..(numSections - 1) :
        IsFullSection(s) =>
            /\ RadiiClamped(s)
            /\ ArcsKeepTheirSide(s * POINTS_PER_SECTION)
            /\ ArcsKeepTheirSide(s * POINTS_PER_SECTION + innerOffset)
            /\ ArcsBelowTopEdge(s * POINTS_PER_SECTION)
            /\ params.wallThickness <= params.hullHeight
                  => ArcsBelowTopEdge(s * POINTS_PER_SECTION + innerOffset)

\* a tapered section with a rounded bilge has been placed in a hull whose
\* wall is thicker than the hull is high: its inner bilge arcs lie above the
\* top edge
C17_Witness ==
    /\ params.wallThickness > params.hullHeight
    /\ \E s \in (sternSections + 1)..(numSections - 1) :
          /\ IsFullSection(s)
          /\ RingEffectiveR(s) > 0
          /\ RadiiClamped(s)
          /\ ~ArcsBelowTopEdge(s * POINTS_PER_SECTION + innerOffset)

\* the section placed last was placed at bowProgress = 1
AtFullProgress == SectionsPlaced = numSections
\* the section placed last was placed at bowProgress = 0
AtNoProgress == SectionsPlaced > 0 /\ SectionsPlaced <= sternSections + 1

\* the radius is left unchanged at bowProgress 0 and for the plumb and raked
\* styles
RadiusKeptElsewhere ==
    (AtNoProgress \/ (SectionsPlaced > 0 /\ params.bowType # "deepV"))
        => bilge = M(params.bilgeRadius)

\* C18, as stated: for a deepV bow at bowProgress = 1 the effective bilge
\* radius, before scaling and clamping, retains between 50% and 95% of
\* bilgeRadius, linearly in bowEntryAngle / 45 (50% at 0 degrees, 95% at 45);
\* at bowProgress = 0 and for plumb and raked bows it is unchanged.
C18_RetainsFiftyToNinetyFivePercent ==
    /\ (AtFullProgress /\ params.bowType = "deepV") =>
          /\ 100 * bilge >= 50 * M(params.bilgeRadius)
          /\ 100 * bilge <= 95 * M(params.bilgeRadius)
          /\ 100 * bilge = (50 + params.bowEntryAngle) * M(params.bilgeRadius)
    /\ RadiusKeptElsewhere

\* C18, amended: for a deepV bow at bowProgress = 1 the effective bilge radius
\* is REDUCED by between 50% and 95% of bilgeRadius, linearly in
\* bowEntryAngle / 45: it retains 50% at 0 degrees and 5% at 45 degrees; at
\* bowProgress = 0 and for plumb and raked bows it is unchanged.
C18_RetainsFiftyToFivePercent ==
    /\ (AtFullProgress /\ params.bowType = "deepV") =>
          /\ 100 * bilge <= 50 * M(params.bilgeRadius)
          /\ 100 * bilge >= 5 * M(params.bilgeRadius)
          /\ 100 * bilge = (50 - params.bowEntryAngle) * M(params.bilgeRadius)
    /\ RadiusKeptElsewhere

\* the tip section of a deepV bow of entry angle 45 was placed with 5% of the
\* radius left
C18_Witness ==
    /\ AtFullProgress
    /\ params.bowType = "deepV"
    /\ params.bowEntryAngle = 45
    /\ params.bilgeRadius > 0
    /\ 100 * bilge = 5 * M(params.bilgeRadius)

\* the ring edges (p1, p2) of the open-topped path, in the order of the
\* section loop: bottom-left, left bilge steps, left wall, right wall, right
\* bilge steps, bottom-right
RingEdges ==
    << <<bottomCenter, leftBilgeStart>> >>
    \o [ i \in 1..(BILGE_SEGMENTS - 1) |-> <<leftBilgeStart + i - 1, leftBilgeStart + i>> ]
    \o << <<leftBilgeEnd, topLeft>>, <<topRight, rightBilgeStart>> >>
    \o [ i \in 1..(BILGE_SEGMENTS - 1) |-> <<rightBilgeStart + i - 1, rightBilgeStart + i>> ]
    \o << <<rightBilgeEnd, bottomCenterClose>> >>

\* the sections whose faces to the next section have been emitted
FacedSections ==
    IF pc \in {"sternSections", "bowSections"} THEN 0
    ELSE IF pc = "faces" THEN sec
    ELSE numSections - 1

\* the first triangle of the quad emitted for the j-th ring edge after
\* section s, on the outer surface (surface 0) or the inner one (surface 1)
QuadTriangle(s, surface, j) ==
    indices[s * Len(SectionFaces(0)) + surface * 2 * Len(RingEdges) + 2 * (j - 1) + 1]

\* the flip value a quad of addQuad was emitted with, read from its first
\* triangle: (curr + p1, next + p2, curr + p2) when flipped,
\* (curr + p1, curr + p2, next + p2) when not
EmittedFlipped(tri, curr, next, p1, p2) == tri = <<curr + p1, next + p2, curr + p2>>
EmittedUnflipped(tri, curr, next, p1, p2) == tri = <<curr + p1, curr + p2, next + p2>>

\* the inner quad of the j-th ring edge after section s has the opposite flip
\* value from the outer quad of that edge
OppositeWinding(s, j) ==
    LET curr == s * POINTS_PER_SECTION
        next == (s + 1) * POINTS_PER_SECTION
        p1 == RingEdges[j][1]
        p2 == RingEdges[j][2]
        outer == QuadTriangle(s, 0, j)
        inner == QuadTriangle(s, 1, j)
    IN  \/ /\ EmittedFlipped(outer, curr, next, p1, p2)
           /\ EmittedUnflipped(inner, curr, next, innerOffset + p1, innerOffset + p2)
        \/ /\ EmittedUnflipped(outer, curr, next, p1, p2)
           /\ EmittedFlipped(inner, curr, next, innerOffset + p1, innerOffset + p2)

\* C19: in the section loop, for every ring edge of the open-topped path the
\* quad emitted for the inner surface has the opposite flip value from the
\* quad emitted for the same edge on the outer surface.
C19_InnerWindingOpposite ==
    \A s \in 0..(FacedSections - 1) : \A j \in 1..Len(RingEdges) :
        OppositeWinding(s, j)

\* the part of C19 that holds: the bilge steps and the two walls
C19_WallsAndBilgesOpposite ==
    \A s \in 0..(FacedSections - 1) : \A j \in 2..(Len(RingEdges) - 1) :
        OppositeWinding(s, j)

\* the faces after section 0 are emitted: the bottom-left quad is flipped on
\* the outer surface and flipped on the inner surface too
C19_Witness ==
    /\ FacedSections > 0
    /\ EmittedFlipped(QuadTriangle(0, 0, 1), 0, POINTS_PER_SECTION,
                      bottomCenter, leftBilgeStart)
    /\ EmittedFlipped(QuadTriangle(0, 1, 1), 0, POINTS_PER_SECTION,
                      innerOffset + bottomCenter, innerOffset + leftBilgeStart)

-----------------------------------------------------------------------------
(* Claims about the integration of the displaced volume *)

\* scale1 = 1 - t1 * 0.97 with t1 = i / bowSegments, as the fraction
\* TaperNum(i) / TaperDen; scale2 of segment i is TaperNum(i + 1) / TaperDen
TaperDen == bowSegments * 100
TaperNum(i) == TaperDen - 97 * i

\* the cross-section area at waterline h of the hull scaled by num / den
AreaAtScale(p, num, den, h) ==
    calculateCrossSectionArea(MulDiv(U(p.beam), num, den),
                              MulDiv(U(p.bilgeRadius), num, den), h)

\* the mean of two areas, without forming their sum
MeanArea(a, b) == (a \div 2) + (b \div 2) + ((a % 2) + (b % 2)) \div 2

\* crossSectionArea(beam, bilgeRadius, h) * sternLength
SternContribution(p, totalLength, h) ==
    AreaTimesLength(calculateCrossSectionArea(U(p.beam), U(p.bilgeRadius), h),
                    totalLength * (100 - p.bowLengthPercent), 100)

\* segmentLength times the average of the areas at the segment's start scale
\* and at its end scale, summed over the segments from i on
RECURSIVE TrapezoidBow(_, _, _, _)
TrapezoidBow(p, totalLength, h, i) ==
    IF i >= bowSegments THEN 0
    ELSE AreaTimesLength(MeanArea(AreaAtScale(p, TaperNum(i), TaperDen, h),
                                  AreaAtScale(p, TaperNum(i + 1), TaperDen, h)),
                         totalLength * p.bowLengthPercent, 100 * bowSegments)
         + TrapezoidBow(p, totalLength, h, i + 1)

\* segmentLength times the area at the average of the segment's start scale
\* and end scale, summed over the segments from i on
RECURSIVE MidpointBow(_, _, _, _)
MidpointBow(p, totalLength, h, i) ==
    IF i >= bowSegments THEN 0
    ELSE AreaTimesLength(AreaAtScale(p, TaperNum(i) + TaperNum(i + 1),
                                     2 * TaperDen, h),
                         totalLength * p.bowLengthPercent, 100 * bowSegments)
         + MidpointBow(p, totalLength, h, i + 1)

\* C20, as stated: the stern contributes crossSectionArea(beam, bilgeRadius, h)
\* * sternLength and each of the 20 bow segments contributes segmentLength
\* times the average of the two cross-section areas at the segment's start
\* scale and end scale (one unit per segment is allowed for the halving).
C20_BowByTrapezoidRule ==
    h2 > 0 =>
        Abs(v2 - (SternContribution(params, CalculatedLength(params), h2)
                  + TrapezoidBow(params, CalculatedLength(params), h2, 0)))
            <= bowSegments

\* C20, amended: the stern contributes crossSectionArea(beam, bilgeRadius, h)
\* * sternLength and each of the 20 bow segments contributes segmentLength
\* times the ONE cross-section area evaluated at the average of the segment's
\* start scale and end scale (midpoint rule).
C20_BowByMidpointRule ==
    h2 > 0 =>
        v2 = SternContribution(params, CalculatedLength(params), h2)
             + MidpointBow(params, CalculatedLength(params), h2, 0)

\* the default hull has been probed above its bilge: the volume is more than
\* the trapezoid rule gives
C20_Witness ==
    /\ params = DEFAULT_PARAMS
    /\ h2 > U(params.bilgeRadius)
    /\ v2 > SternContribution(params, CalculatedLength(params), h2)
            + TrapezoidBow(params, CalculatedLength(params), h2, 0) + bowSegments

-----------------------------------------------------------------------------
(* Claims about the cross-section area below the bilge radius *)

\* the hull has no bow, so that the displaced volume is the stern area times
\* the length, and the probed height lies below min(bilgeRadius, beam / 2)
ProbedBelowBilge ==
    /\ params.bowLengthPercent = 0
    /\ 0 < h2
    /\ h2 < Min2(U(params.bilgeRadius), U(params.beam) \div 2)

\* the centre strip between the two bilge corners plus two circular-segment
\* corners of radius min(bilgeRadius, beam / 2) up to the height
StripAndSegments(beam, bilgeRadius, atHeight) ==
    LET r == Min2(bilgeRadius, beam \div 2)
    IN  (beam - 2 * r) * atHeight + 2 * calculateCornerArea(r, atHeight)

\* the centre strip and the two quarter circles of a bilge whose radius is
\* the height itself
StripAndQuarterCircles(beam, atHeight) ==
    (beam - 2 * atHeight) * atHeight
    + 2 * MulDiv(atHeight * atHeight, PiHalfNum, 2 * PiHalfDen)

\* C21: for 0 < atHeight < min(bilgeRadius, beam / 2) calculateCrossSectionArea
\* returns the centre strip (beam - 2 * bilgeRadius) * atHeight plus two
\* circular-segment corners of the actual bilge radius, from the arc-cosine
\* branch of calculateCornerArea.
C21_SegmentCornersBelowBilge ==
    ProbedBelowBilge =>
        v2 = AreaTimesLength(StripAndSegments(U(params.beam), U(params.bilgeRadius), h2),
                             CalculatedLength(params) * 100, 100)

\* what the code returns there: the radius is clamped to the height, the
\* corners are quarter circles of that radius
C21_QuarterCirclesOfTheHeight ==
    ProbedBelowBilge =>
        v2 = AreaTimesLength(StripAndQuarterCircles(U(params.beam), h2),
                             CalculatedLength(params) * 100, 100)

\* a bowless hull of bilge radius 5 mm has been probed below 5 mm: the volume
\* is not the one of the strip and the two segments
C21_Witness ==
    /\ ProbedBelowBilge
    /\ params.bilgeRadius = DEFAULT_PARAMS.bilgeRadius
    /\ v2 # AreaTimesLength(StripAndSegments(U(params.beam), U(params.bilgeRadius), h2),
                            CalculatedLength(params) * 100, 100)

-----------------------------------------------------------------------------
(* Claims relating the solver's taper to the mesher's *)

\* the beam the solver gives bow segment i (segmentBeam = beam * avgScale),
\* in solver units
SolverBeamAt(i) == MulDiv(U(params.beam), AvgScaleNum(i), ScaleDen)

\* the sum of the beams of the mesh sections at the two ends of bow segment
\* i, read from their top-right vertices, in mesher units
MeshBeamSumAt(i) ==
    2 * RingHalfBeam(sternSections + i) + 2 * RingHalfBeam(sternSections + i + 1)

\* both end sections of bow segment i are drawn at their scale: none of them
\* is collapsed before the tip
DrawnToScale(i) ==
    /\ ~IsCollapsed(sternSections + i)
    /\ sternSections + i + 1 < numSections - 1 => ~IsCollapsed(sternSections + i + 1)

\* twice the solver's beam less the sum of the two mesh beams, in units of
\* 1 / (UnitsPerMm * MeshPerMm) mm
BeamExcessAt(i) == 2 * SolverBeamAt(i) * MeshPerMm - MeshBeamSumAt(i) * UnitsPerMm

\* the most the roundings of the three beams can add up to, in those units
BeamRounding == 2 * MeshPerMm + 2 * UnitsPerMm

\* C22, as stated: the solver's section scale equals the mesher's scale
\* max(0, 1 - t), so both give every longitudinal position of the bow the
\* same beam.
C22_SolverTaperIsMesherTaper ==
    SectionsPlaced = numSections =>
        \A i \in 0..(bowSegments - 1) :
            DrawnToScale(i) => Abs(BeamExcessAt(i)) <= BeamRounding

\* C22, amended: the solver tapers by 1 - 0.97 * t, to 3% of the beam at the
\* tip, the mesher by max(0, 1 - t), to 0: over bow segment i the solver's
\* beam exceeds the mesher's mean beam by 0.03 * (2 * i + 1) / 40 of the beam.
C22_SolverTaperStopsAtThreePercent ==
    SectionsPlaced = numSections =>
        \A i \in 0..(bowSegments - 1) :
            DrawnToScale(i) =>
                Abs(BeamExcessAt(i)
                    - (2 * U(params.beam) * MeshPerMm * 3 * (2 * i + 1)) \div ScaleDen)
                    <= BeamRounding

\* all the sections of the default hull are placed: over the last bow segment
\* the solver's beam is more than twice the mean beam of the mesh
C22_Witness ==
    /\ SectionsPlaced = numSections
    /\ params = DEFAULT_PARAMS
    /\ DrawnToScale(bowSegments - 1)
    /\ 2 * SolverBeamAt(bowSegments - 1) * MeshPerMm
          > 2 * MeshBeamSumAt(bowSegments - 1) * UnitsPerMm

-----------------------------------------------------------------------------
(* components/Viewer3D: the view preset buttons and keyboard shortcuts *)

ViewPresets ==
    {"home", "home2", "home3", "home4", "top", "bottom", "front", "back",
     "right", "left"}

viewTogglePairs ==
    [ preset \in ViewPresets |->
        CASE preset = "home" -> "home2"
          [] preset = "home2" -> "home3"
          [] preset = "home3" -> "home4"
          [] preset = "home4" -> "home"
          [] preset = "top" -> "bottom"
          [] preset = "bottom" -> "top"
          [] preset = "front" -> "back"
          [] preset = "back" -> "front"
          [] preset = "right" -> "left"
          [] preset = "left" -> "right" ]

isHomePreset(preset) == preset \in {"home", "home2", "home3", "home4"}

\* handleViewPreset(preset) as created by a render in which viewPreset was
\* current: the argument it hands to setViewPreset
handleViewPreset(current, preset) ==
    IF preset = "home"
    THEN IF isHomePreset(current) THEN viewTogglePairs[current] ELSE "home"
    ELSE IF current = preset THEN viewTogglePairs[preset] ELSE preset

\* the dependency array of the keyboard effect: handleKeyDown is registered
\* again after a render only when one of these has changed
KeyboardEffectDeps == {}

\* the viewPreset seen by the handleKeyDown that is registered once a render
\* with the new preset has committed
Registered(newPreset) ==
    IF "viewPreset" \in KeyboardEffectDeps THEN newPreset ELSE keyDownPreset

\* the preset buttons: onClick={() => handleViewPreset(...)} of this render
ClickViewButton ==
    \E preset \in {"home", "top", "front", "right"} :
        /\ viewPreset' = handleViewPreset(viewPreset, preset)
        /\ keyDownPreset' = Registered(viewPreset')
        /\ event' = [kind |-> "click", name |-> preset, inInput |-> FALSE]
        /\ before' = viewPreset
        /\ UNCHANGED <<viewMode, params, solverVars, sweepVars, hullVars, queryVars,
                       cutVars, loadVars, appVars>>

\* the Persp and Ortho buttons
ClickViewMode ==
    \E mode \in {"perspective", "orthographic"} :
        /\ viewMode' = mode
        /\ event' = [kind |-> "click", name |-> mode, inInput |-> FALSE]
        /\ before' = viewPreset
        /\ UNCHANGED <<viewPreset, keyDownPreset, params, solverVars, sweepVars,
                       hullVars, queryVars, cutVars, loadVars, appVars>>

\* e.key.toLowerCase()
toLowerCase(key) == IF key = "H" THEN "h" ELSE key

\* the keys pressed: the shortcuts, a capital and a key without a shortcut
Keys == {"p", "o", "h", "H", "t", "f", "b", "r", "l", "x"}

\* handleKeyDown, registered on the window by the keyboard effect
handleKeyDown ==
    \E key \in Keys, typing \in BOOLEAN :
        /\ event' = [kind |-> "key", name |-> key, inInput |-> typing]
        /\ before' = viewPreset
        /\ IF typing
           THEN UNCHANGED <<viewMode, viewPreset>>
           ELSE LET k == toLowerCase(key)
                IN  /\ viewMode' = CASE k = "p" -> "perspective"
                                     [] k = "o" -> "orthographic"
                                     [] OTHER -> viewMode
                    /\ viewPreset' = CASE k = "h" -> handleViewPreset(keyDownPreset, "home")
                                       [] k = "t" -> "top"
                                       [] k = "f" -> "front"
                                       [] k = "b" -> "back"
                                       [] k = "r" -> "right"
                                       [] k = "l" -> "left"
                                       [] OTHER -> viewPreset
        /\ keyDownPreset' = Registered(viewPreset')
        /\ UNCHANGED <<params, solverVars, sweepVars, hullVars, queryVars, cutVars,
                       loadVars, appVars>>

InitView ==
    /\ params = DEFAULT_PARAMS
    /\ NoSolver /\ NoSweep /\ NoHull /\ NoQuery /\ NoCut /\ NoLoad /\ NoApp
    /\ NoView

NextView == ClickViewButton \/ ClickViewMode \/ handleKeyDown

SpecView == InitView /\ [][NextView]_vars

\* the Home button was clicked
HomeClicked == event.kind = "click" /\ event.name = "home"

\* H was pressed outside an input
HomePressed == event.kind = "key" /\ toLowerCase(event.name) = "h" /\ ~event.inInput

\* the preset a quarter turn on from the preset the event met
QuarterTurnOn == IF isHomePreset(before) THEN viewTogglePairs[before] ELSE "home"

\* C24: activating the Home view, by the Home button or by the H key, turns
\* the view a quarter: from a home variant the preset advances home -> home2
\* -> home3 -> home4 -> home, from any other preset it becomes home, after
\* any earlier preset changes.
C24_HomeRotatesQuarterTurn ==
    HomeClicked \/ HomePressed => viewPreset = QuarterTurnOn

\* the Home button does so
C24_HomeButtonRotates == HomeClicked => viewPreset = QuarterTurnOn

\* the H key sets home2 whatever the preset was
C24_HomeKeySetsHome2 == HomePressed => viewPreset = "home2"

\* H was pressed while the view was home2 and the view stayed home2
C24_Witness == HomePressed /\ before = "home2" /\ viewPreset = "home2"

\* H was pressed in the top view and the view became home2, not home
C24_WitnessFromTop == HomePressed /\ before = "top" /\ viewPreset = "home2"

-----------------------------------------------------------------------------
(* Claims about the segments of single triangles *)

\* the signed distances of the three vertices of a triangle from the plane
Distances(pl, tri) ==
    [ c \in 1..3 |-> distanceToPoint(pl, CutPosition(tri[c])) ]

\* the slots of the triangle whose vertex lies on the plane
SlotsOnPlane(pl, tri) == { c \in 1..3 : Distances(pl, tri)[c] = 0 }

\* the plane meets the triangle in exactly two points: it crosses two edges,
\* or passes through one vertex and crosses the opposite edge, or contains
\* one edge and not the third vertex
MeetsInTwoPoints(pl, tri) ==
    LET d == Distances(pl, tri)
        above == Cardinality({ c \in 1..3 : d[c] > 0 })
        below == Cardinality({ c \in 1..3 : d[c] < 0 })
    IN  \/ above >= 1 /\ below >= 1
        \/ above + below = 1

\* the triangles of the mesh with exactly two vertices on the cutting plane
TwoOnPlane == { k \in 1..Len(indices) : Cardinality(SlotsOnPlane(plane, indices[k])) = 2 }

\* the segment of the triangle joins its two vertices on the plane
GivesItsEdge(k) ==
    /\ k \in Cutting(plane)
    /\ { Intersections(plane, indices[k])[1], Intersections(plane, indices[k])[2] }
          = { CutPosition(indices[k][c]) : c \in SlotsOnPlane(plane, indices[k]) }

\* C23: a triangle gives exactly one segment whenever the plane meets it in
\* exactly two points; a triangle with exactly two vertices on the plane
\* gives the segment joining them whichever two slots they occupy.
C23_OneSegmentPerTwoPointTriangle ==
    cpc = "connect" =>
        /\ Len(segments)
              = Cardinality({ k \in 1..Len(indices) : MeetsInTwoPoints(plane, indices[k]) })
        /\ \A k \in TwoOnPlane : GivesItsEdge(k)

\* what holds: the triangles with two vertices on the plane give their edge
\* unless the two vertices are in the slots v0 and v1, and then they give no
\* segment
C23_EdgeInFirstSlotsIsDropped ==
    cpc = "connect" =>
        \A k \in TwoOnPlane :
            IF SlotsOnPlane(plane, indices[k]) = {1, 2}
            THEN k \notin Cutting(plane)
            ELSE GivesItsEdge(k)

\* the mesh was cut through a section and holds a triangle with v0 and v1 on
\* the plane, which gave no segment, and the same edge in other slots of
\* another triangle, which gave it
C23_Witness ==
    /\ cpc = "connect"
    /\ \E k \in TwoOnPlane, j \in TwoOnPlane :
          /\ SlotsOnPlane(plane, indices[k]) = {1, 2}
          /\ k \notin Cutting(plane)
          /\ SlotsOnPlane(plane, indices[j]) # {1, 2}
          /\ GivesItsEdge(j)
          /\ { CutPosition(indices[k][c]) : c \in {1, 2} }
                = { CutPosition(indices[j][c]) : c \in SlotsOnPlane(plane, indices[j]) }

-----------------------------------------------------------------------------
(* App.handleLoad over utils/fileOperations.loadParamsFromFile *)

PARAMS_VERSION == 1

\* loadParamsFromFile accepting the current version only
RejectsOtherVersions(f) ==
    IF f.kind = "json" /\ f.version = PARAMS_VERSION
    THEN [state |-> "fulfilled", value |-> loadParams(f.params)]
    ELSE [state |-> "rejected", value |-> <<>>]

\* the promise of loadParamsFromFile once the file input has delivered f:
\* onchange without a file and oncancel reject; file text that JSON.parse
\* refuses, or the text null, whose data.version throws, rejects from the
\* catch; any other text resolves with loadParams(data.params), a version
\* other than PARAMS_VERSION being logged only
LoadPromise(f) ==
    CASE f.kind = "noFile" -> [state |-> "rejected", value |-> <<>>]
      [] f.kind = "cancelled" -> [state |-> "rejected", value |-> <<>>]
      [] f.kind = "notJson" -> [state |-> "rejected", value |-> <<>>]
      [] f.kind = "null" -> [state |-> "rejected", value |-> <<>>]
      [] f.kind = "json" -> [state |-> "fulfilled", value |-> loadParams(f.params)]

\* what the file input delivers: no file, a cancel, and files of text that is
\* not JSON, of the text null, and of save data of the current, an older and
\* a newer version, with complete params, with some params and with none
Files ==
    { [kind |-> k] : k \in {"noFile", "cancelled", "notJson", "null"} }
    \cup { [kind |-> "json", version |-> v, params |-> r] :
             v \in {PARAMS_VERSION - 1, PARAMS_VERSION, PARAMS_VERSION + 1},
             r \in CompleteRecords \cup PartialRecords }

\* App.handleLoad: setParams(await loadParamsFromFile()), a rejection caught
\* and logged
handleLoad ==
    \E f \in Files :
        /\ file' = f
        /\ settled' = LoadPromise(f).state
        /\ params' = IF LoadPromise(f).state = "fulfilled"
                     THEN LoadPromise(f).value
                     ELSE params
        /\ UNCHANGED <<solverVars, sweepVars, hullVars, queryVars, cutVars, loadVars,
                       viewVars>>

InitApp ==
    /\ params = DEFAULT_PARAMS
    /\ NoSolver /\ NoSweep /\ NoHull /\ NoQuery /\ NoCut /\ NoLoad /\ NoView
    /\ NoApp

NextApp == handleLoad

SpecApp == InitApp /\ [][NextApp]_vars

\* C25: a rejection of loadParamsFromFile (no file, cancelled, parse
\* failure) leaves the params of App unchanged; params change only to a
\* parsed record merged over the defaults; a file of another version is not
\* rejected.
C25_RejectedLoadKeepsParams ==
    [][ /\ settled' = "rejected" => params' = params
        /\ params' # params =>
              /\ file'.kind = "json"
              /\ params' = [ g \in DOMAIN DEFAULT_PARAMS \cup DOMAIN file'.params |->
                               IF g \in DOMAIN file'.params
                               THEN file'.params[g] ELSE DEFAULT_PARAMS[g] ]
        /\ file'.kind = "json" => settled' = "fulfilled" ]_vars

\* a file of another version was loaded and changed params
C25_Witness ==
    /\ settled = "fulfilled"
    /\ file.version # PARAMS_VERSION
    /\ params # DEFAULT_PARAMS
    /\ params.beam = file.params.beam

\* a load was rejected while the params were not the defaults
C25_WitnessRejected == settled = "rejected" /\ params # DEFAULT_PARAMS

-----------------------------------------------------------------------------
(* Claims about the waterline as a function of the payload *)

\* the params that differ from p only in a smaller motorWeight, batteryWeight
\* or ballastWeight (one of them lowered, or all three)
LighterThan(p) ==
    { [p EXCEPT !.ballastWeight = k * BallastStep] :
        k \in { j \in 0..MaxBallastSteps : j * BallastStep < p.ballastWeight } }
    \cup { [p EXCEPT !.motorWeight = m] : m \in { w \in {0, 5} : w < p.motorWeight } }
    \cup { [p EXCEPT !.batteryWeight = m] : m \in { w \in {0, 11} : w < p.batteryWeight } }
    \cup { [p EXCEPT !.motorWeight = 0, !.batteryWeight = 0, !.ballastWeight = 0] }

\* C26: the waterline is monotone in the payload: of two params with the same
\* totalLength that differ only in a larger motorWeight, batteryWeight or
\* ballastWeight, the heavier never floats lower.
C26_WaterlineMonotoneInPayload ==
    wpc = "returned" =>
        /\ waterline = calculateWaterlineHeight(params, CalculatedLength(params))
        /\ \A q \in LighterThan(params) :
              calculateWaterlineHeight(q, CalculatedLength(q)) <= waterline

\* a loaded hull that floats has returned a waterline strictly above that of
\* the same hull without ballast
C26_Witness ==
    /\ wpc = "returned"
    /\ params.ballastWeight > 0
    /\ ~WouldSinkAt(params, waterline)
    /\ calculateWaterlineHeight([params EXCEPT !.ballastWeight = 0],
                                CalculatedLength(params)) < waterline

-----------------------------------------------------------------------------
(* Claims about the overloaded hull *)

\* the total mass exceeds the mass of the water displaced at waterline =
\* hullHeight
Overloaded ==
    calculateDisplacedVolume(params, CalculatedLength(params), U(params.hullHeight))
        < RequiredVolumeOf(params, CalculatedLength(params))

\* C27: for an overloaded hull of any hullHeight of the slider's range
\* calculateWaterlineHeight returns at least 0.95 * hullHeight and wouldSink
\* returns true.
C27_OverloadedHullSinks ==
    Overloaded =>
        /\ wpc \in {"returned", "checked"} => waterline * 100 >= U(params.hullHeight) * 95
        /\ wpc = "checked" => sinks

\* wouldSink has answered for an overloaded hull of the greatest hullHeight
C27_Witness ==
    /\ wpc = "checked"
    /\ Overloaded
    /\ params.hullHeight = 500
    /\ sinks
    /\ waterline < U(params.hullHeight)

\* the same for the least hullHeight
C27_WitnessLow ==
    /\ wpc = "checked" /\ Overloaded /\ params.hullHeight = 150 /\ sinks

-----------------------------------------------------------------------------
(* components/ControlPanel: the hull dimension sliders *)

\* the slider positions taken, of those between lo and hi: both ends, the
\* default and the middle, brought down to a multiple of the step
SliderPositions(lo, hi, step, default) ==
    { (v \div step) * step : v \in { lo, hi, (lo + hi) \div 2 } \cup ({default} \cap lo..hi) }

\* min and max of the Bilge Radius slider: 0 and
\* Math.min(params.beam / 4, params.hullHeight / 2), step 0.5
BilgeRadiusMax(p) == Min2(p.beam \div 4, p.hullHeight \div 2)

\* the values a slider of the panel rendered with p can hand to update
SliderValues(p, key) ==
    CASE key = "beam" -> SliderPositions(200, 800, 10, DEFAULT_PARAMS.beam)
      [] key = "hullHeight" -> SliderPositions(150, 500, 10, DEFAULT_PARAMS.hullHeight)
      [] key = "wallThickness" -> SliderPositions(8, 30, 1, DEFAULT_PARAMS.wallThickness)
      [] key = "bilgeRadius" ->
            SliderPositions(0, BilgeRadiusMax(p), 5, DEFAULT_PARAMS.bilgeRadius)

\* update(key, value) = onChange({ ...params, [key]: value })
update ==
    \E key \in {"beam", "hullHeight", "wallThickness", "bilgeRadius"} :
        \E value \in SliderValues(params, key) :
            /\ params' = [params EXCEPT ![key] = value]
            /\ UNCHANGED <<solverVars, sweepVars, hullVars, queryVars, cutVars, loadVars,
                           appVars, viewVars>>

InitPanel ==
    /\ params = DEFAULT_PARAMS
    /\ NoSolver /\ NoSweep /\ NoHull /\ NoExtras

NextPanel == update

SpecPanel == InitPanel /\ [][NextPanel]_vars

\* C28: after any sequence of slider updates from DEFAULT_PARAMS, each to a
\* value within the slider's range as rendered, bilgeRadius is at most
\* min(beam / 4, hullHeight / 2).
C28_BilgeWithinItsSliderRange ==
    /\ 4 * params.bilgeRadius <= params.beam
    /\ 2 * params.bilgeRadius <= params.hullHeight

\* what holds: bilgeRadius is within the greatest range the slider ever has
C28_BilgeWithinGreatestRange ==
    /\ 4 * params.bilgeRadius <= 800
    /\ 2 * params.bilgeRadius <= 500

\* the bilge radius was set to 10 mm on a beam of at least 40 mm and the beam
\* then brought down to 20 mm
C28_Witness == params.bilgeRadius = 100 /\ params.beam = 200

-----------------------------------------------------------------------------
(* Claims relating the analytic Z cap to the mesh section *)

\* the bow sections of the mesher in the taper, short of the tip, that the
\* mesher does not collapse
TaperedSections ==
    { s \in 1..(bowSections - 1) :
        /\ (bowSections - s) * 100 >= 2 * bowSections
        /\ ~Collapses(params, bowSections - s, FALSE) }

\* the vertices addCrossSection pushes for bow section s
MeshSection(s) == addCrossSection(params, SectionZ(params, s), bowSections - s, s, FALSE)

\* halfBeam, innerHalfBeam and innerR of addCrossSection, read from the
\* top-right vertices and the ends of the inner bilge arc
MeshHalfBeam(s) == MeshSection(s)[topRight + 1][1]
MeshInnerHalfBeam(s) == MeshSection(s)[innerOffset + topRight + 1][1]
MeshInnerR(s) ==
    MeshSection(s)[innerOffset + leftBilgeEnd + 1][2]
    - MeshSection(s)[innerOffset + bottomCenter + 1][2]

\* a Z cap was drawn at the position of bow section s
CappedAtSection(s) ==
    axis = "z" /\ result = "geometry" /\ position = SectionZ(params, s)

\* C29: at a mesher section position in the tapered bow the Z cap has the
\* outline of the mesh section: the same outer half-beam, inner half-beam
\* and inner bilge radius.
C29_ZCapHasMeshOutline ==
    \A s \in TaperedSections :
        CappedAtSection(s) =>
            /\ outline.halfBeam = MeshHalfBeam(s)
            /\ outline.innerHalfBeam = MeshInnerHalfBeam(s)
            /\ outline.innerR = MeshInnerR(s)

\* what holds: the outer half-beam agrees; the inner half-beam of the cap is
\* wider by wallThickness * (1 - scale) wherever neither is clamped
C29_ZCapWallIsScaled ==
    \A s \in TaperedSections :
        CappedAtSection(s) =>
            /\ outline.halfBeam = MeshHalfBeam(s)
            /\ MeshInnerHalfBeam(s) > MeshPerMm \div 10 =>
                  outline.innerHalfBeam - MeshInnerHalfBeam(s)
                      = M(params.wallThickness) - Scaled(M(params.wallThickness),
                                                         bowSections - s, bowSections)

\* the default hull was capped half way along the bow: the wall of the cap is
\* 0.6 mm thick where the wall of the mesh is 1.2 mm
C29_Witness ==
    /\ params = DEFAULT_PARAMS
    /\ CappedAtSection(bowSections \div 2)
    /\ outline.halfBeam = MeshHalfBeam(bowSections \div 2)
    /\ outline.halfBeam - outline.innerHalfBeam = M(params.wallThickness) \div 2
    /\ MeshHalfBeam(bowSections \div 2) - MeshInnerHalfBeam(bowSections \div 2)
          = M(params.wallThickness)

-----------------------------------------------------------------------------
(* Claims about the raked bow tip *)

\* the z of the collapsed tip section
TipZ == Position(tipSection)[3]

\* C30: for the raked bow the collapsed tip is the forward-most point of the
\* mesh: no vertex of another section, the top corners of the last
\* non-collapsed section among them, has a greater z.
C30_RakedTipForwardMost ==
    (Meshed /\ params.bowType = "raked") =>
        \A a \in 0..(tipSection - 1) : Position(a)[3] <= TipZ

\* what holds: the tip lies at L/2 plus the rake offset of half the hull
\* height, and no vertex lies beyond L/2 plus the rake offset of the full
\* height
C30_RakedTipAtHalfHeightOffset ==
    (Meshed /\ params.bowType = "raked") =>
        /\ TipZ = HalfLength
                  + calcRakeOffset(params, bowSections, M(params.hullHeight) \div 2)
        /\ \A a \in 0..(tipSection - 1) :
              Position(a)[3] <= HalfLength
                                + calcRakeOffset(params, bowSections, M(params.hullHeight))

\* a raked hull is meshed whose last section before the tip is not collapsed
\* and has its top corners forward of the tip
C30_Witness ==
    /\ Meshed
    /\ params.bowType = "raked"
    /\ ~IsCollapsed(numSections - 2)
    /\ Position(lastFullSection + topLeft)[3] > TipZ
    /\ Position(lastFullSection + topRight)[3] > TipZ

=============================================================================
